---- MODULE Spec2Model ----
(***************************************************************************)
(* Model of invplatform/cli/invoices_report.py: the numeric normaliser,    *)
(* the line reconstructor, the totals inference, parse_invoice, the        *)
(* classifier, the confidence score, the reference and date extractors,    *)
(* the secondary text extractor, the label search                          *)
(* find_amount_before_marker, the invoice id and billing period            *)
(* extractors, the batch driver generate_report and the CSV writer.        *)
(*                                                                         *)
(* Strings are sequences of one-character strings.  An optional value is   *)
(* a sequence of length at most one: <<>> is Python's None, <<x>> is x.    *)
(* A parsed float is an exact decimal <<sign, integer digits, fraction      *)
(* digits>> in canonical form.                                             *)
(***************************************************************************)
EXTENDS Integers, Sequences, FiniteSets, TLC

VARIABLES num, sel, lr, inv, batch, fn

vars == <<num, sel, lr, inv, batch, fn>>

\* ------------------------------------------------------------------ bounds
MaxGroups == 3
MaxTokens == 3
MaxFragments == 4
MaxBlockValues == 2
MaxDocs == 2

\* ------------------------------------------------------------ characters
None == <<>>
Some(x) == <<x>>
IsNone(o) == Len(o) = 0
Val(o) == o[1]

Digits == {"0", "1", "2", "3", "4", "5", "6", "7", "8", "9"}
Whitespace == {" ", "\t", "\n", "\r"}

IsDigit(c) == c \in Digits

DigitVal(c) ==
    CASE c = "0" -> 0 [] c = "1" -> 1 [] c = "2" -> 2 [] c = "3" -> 3
      [] c = "4" -> 4 [] c = "5" -> 5 [] c = "6" -> 6 [] c = "7" -> 7
      [] c = "8" -> 8 [] c = "9" -> 9

AllDigits(s) == \A i \in 1..Len(s) : IsDigit(s[i])

Count(s, c) == Cardinality({i \in 1..Len(s) : s[i] = c})

Contains(s, c) == \E i \in 1..Len(s) : s[i] = c

Reverse(s) == [i \in 1..Len(s) |-> s[Len(s) + 1 - i]]

RECURSIVE LStrip(_)
LStrip(s) ==
    IF s # <<>> /\ Head(s) \in Whitespace THEN LStrip(Tail(s)) ELSE s

Strip(s) == Reverse(LStrip(Reverse(LStrip(s))))

ReplaceChar(s, a, b) == [i \in 1..Len(s) |-> IF s[i] = a THEN b ELSE s[i]]

RemoveChar(s, a) == SelectSeq(s, LAMBDA c : c # a)

\* index of the first occurrence of c in s, 0 when absent
FirstIndex(s, c) ==
    IF Contains(s, c) THEN CHOOSE i \in 1..Len(s) :
                               s[i] = c /\ \A j \in 1..(i - 1) : s[j] # c
    ELSE 0

\* index of the last occurrence of c in s, 0 when absent
LastIndex(s, c) ==
    IF Contains(s, c) THEN CHOOSE i \in 1..Len(s) :
                               s[i] = c /\ \A j \in (i + 1)..Len(s) : s[j] # c
    ELSE 0

\* mutant: the pattern accepts two fractional digits as well
MatchesReversedThousands_Loose(body) ==
    /\ Len(body) >= 4
    /\ \E k \in {2, 3} :
         /\ Len(body) - k >= 2
         /\ body[Len(body) - k] = "."
         /\ \A i \in 1..Len(body) : i # Len(body) - k => IsDigit(body[i])

\* re.match(r"^\d+\.\d{3}$", body)
MatchesReversedThousands(body) ==
    /\ Len(body) >= 5
    /\ body[Len(body) - 3] = "."
    /\ \A i \in 1..Len(body) : i # Len(body) - 3 => IsDigit(body[i])

\* mutant: the swap is taken only for a one-digit head
SwapReversedThousands_OffByOne(body) ==
    LET head == SubSeq(body, 1, Len(body) - 4)
        tail == SubSeq(body, Len(body) - 2, Len(body))
    IN  IF Len(head) < 2 THEN tail \o <<".">> \o head ELSE Reverse(body)

\* the repair of a matching body: swap the groups when the head has at
\* most two digits, reverse the whole string otherwise
SwapReversedThousands(body) ==
    LET head == SubSeq(body, 1, Len(body) - 4)
        tail == SubSeq(body, Len(body) - 2, Len(body))
    IN  IF Len(head) <= 2 THEN tail \o <<".">> \o head ELSE Reverse(body)

\* the comma rules of normalize_amount_token
NormalizeCommas(token) ==
    IF Contains(token, ",") /\ Contains(token, ".") THEN RemoveChar(token, ",")
    ELSE IF Count(token, ",") > 1 THEN RemoveChar(token, ",")
    ELSE IF Count(token, ",") = 1 /\ ~Contains(token, ".")
         THEN ReplaceChar(token, ",", ".")
    ELSE token

\* normalize_amount_token: Optional[str] -> Optional[str]
normalize_amount_token(raw) ==
    IF raw = <<>> THEN None
    ELSE
      LET stripped == Strip(raw)
          sign == IF stripped # <<>> /\ Head(stripped) = "-" THEN <<"-">> ELSE <<>>
          token == SelectSeq(raw, LAMBDA c : IsDigit(c) \/ c \in {".", ","})
          repaired == IF MatchesReversedThousands(token)
                      THEN SwapReversedThousands(token)
                      ELSE token
      IN  IF token = <<>> THEN None
          ELSE Some(sign \o NormalizeCommas(repaired))

\* ------------------------------------------------------------- float()
RECURSIVE StripLeadingZeros(_)
StripLeadingZeros(s) ==
    IF s # <<>> /\ Head(s) = "0" THEN StripLeadingZeros(Tail(s)) ELSE s

StripTrailingZeros(s) == Reverse(StripLeadingZeros(Reverse(s)))

\* the exact decimal value <<sign, integer digits, fraction digits>>, with
\* no leading zero in the integer digits, no trailing zero in the fraction
\* and sign 1 for zero (Python: -0.0 == 0.0)
Decimal(neg, intpart, frac) ==
    LET i == StripLeadingZeros(intpart)
        f == StripTrailingZeros(frac)
    IN  <<IF neg /\ (i # <<>> \/ f # <<>>) THEN -1 ELSE 1, i, f>>

\* float(s) for a string over sign, digits and separators: None when
\* Python raises ValueError, else the exact decimal value
ParseFloat(s) ==
    LET t == Strip(s)
        signed == t # <<>> /\ Head(t) \in {"-", "+"}
        neg == t # <<>> /\ Head(t) = "-"
        body == IF signed THEN Tail(t) ELSE t
        dot == FirstIndex(body, ".")
        intpart == IF dot = 0 THEN body ELSE SubSeq(body, 1, dot - 1)
        frac == IF dot = 0 THEN <<>> ELSE SubSeq(body, dot + 1, Len(body))
        ok == /\ AllDigits(intpart)
              /\ AllDigits(frac)
              /\ Len(intpart) + Len(frac) > 0
    IN  IF ~ok THEN None
        ELSE Some(Decimal(neg, intpart, frac))

\* parse_number: Optional[str] -> Optional[float]
parse_number(raw) ==
    LET token == normalize_amount_token(raw)
    IN  IF IsNone(token) \/ Val(token) = <<>> THEN None
        ELSE ParseFloat(Val(token))

\* amount >= 10 for a decimal value
DecGeqTen(a) == a[1] = 1 /\ Len(a[2]) >= 2

\* mutant: the year filter looks for the wrong century
IsCalendarYear_WrongPrefix(n) ==
    AllDigits(n) /\ Len(n) = 4 /\ SubSeq(n, 1, 2) = <<"1", "9">>

\* normalized.isdigit() and len(normalized) == 4 and normalized.startswith("20")
IsCalendarYear(n) ==
    AllDigits(n) /\ Len(n) = 4 /\ SubSeq(n, 1, 2) = <<"2", "0">>

\* select_amount: the surviving (amount, normalized) candidates, in order
RECURSIVE Candidates(_)
Candidates(tokens) ==
    IF tokens = <<>> THEN <<>>
    ELSE
      LET normalized == normalize_amount_token(Head(tokens))
          rest == Candidates(Tail(tokens))
      IN  IF IsNone(normalized) \/ Val(normalized) = <<>> THEN rest
          ELSE LET n == Val(normalized)
               IN  IF IsCalendarYear(n) THEN rest
                   ELSE IF IsNone(ParseFloat(n)) THEN rest
                   ELSE <<<<Val(ParseFloat(n)), n>>>> \o rest

\* "." in normalized and len(normalized.split(".")[-1]) == 2
HasTwoDecimals(n) == Contains(n, ".") /\ Len(n) - LastIndex(n, ".") = 2

\* the first element of a sequence satisfying a test, None when there is none
FirstWhere(s, Test(_)) ==
    IF \E i \in 1..Len(s) : Test(s[i])
    THEN Some(s[CHOOSE i \in 1..Len(s) :
                    Test(s[i]) /\ \A j \in 1..(i - 1) : ~Test(s[j])])
    ELSE None

\* select_amount: Iterable[str] -> Optional[float]
select_amount(tokens) ==
    LET candidates == Candidates(tokens)
        two == FirstWhere(candidates, LAMBDA c : HasTwoDecimals(c[2]))
        dec == FirstWhere(candidates, LAMBDA c : Contains(c[2], "."))
        big == FirstWhere(candidates, LAMBDA c : DecGeqTen(c[1]))
    IN  IF candidates = <<>> THEN None
        ELSE IF ~IsNone(two) THEN Some(Val(two)[1])
        ELSE IF ~IsNone(dec) THEN Some(Val(dec)[1])
        ELSE IF ~IsNone(big) THEN Some(Val(big)[1])
        ELSE Some(candidates[1][1])

\* ------------------------------------------------------ extract_lines
\* the pieces of s between occurrences of the character sep
RECURSIVE SplitOn(_, _)
SplitOn(s, sep) ==
    LET k == FirstIndex(s, sep)
    IN  IF k = 0 THEN <<s>>
        ELSE <<SubSeq(s, 1, k - 1)>> \o SplitOn(SubSeq(s, k + 1, Len(s)), sep)

\* "\n".join(lines)
RECURSIVE JoinLines(_)
JoinLines(lines) ==
    IF lines = <<>> THEN <<>>
    ELSE IF Len(lines) = 1 THEN lines[1]
    ELSE lines[1] \o <<"\n">> \o JoinLines(Tail(lines))

\* re.fullmatch(r"-?\d+", token)
is_basic_number(token) ==
    LET digits == IF token # <<>> /\ Head(token) = "-" THEN Tail(token) ELSE token
    IN  digits # <<>> /\ AllDigits(digits)

\* mutant: the popped line is not put back
RestorePopped_Dropped(rest, prev) == rest

\* the lone-dot branch found no pair of integers: put the popped line back
RestorePopped(rest, prev) == Append(rest, prev)

\* the merge loop of extract_lines, from position i with the output so far
RECURSIVE MergeLines(_, _, _)
MergeLines(raw_lines, i, merged) ==
    IF i > Len(raw_lines) THEN merged
    ELSE
      LET line == raw_lines[i]
          hasNext == i + 1 <= Len(raw_lines)
          nxt == raw_lines[i + 1]
          last == merged[Len(merged)]
          front == SubSeq(merged, 1, Len(merged) - 1)
          body == SubSeq(line, 1, Len(line) - 1)
      IN  IF line = <<".">> /\ merged # <<>> /\ hasNext
          THEN IF is_basic_number(last) /\ is_basic_number(nxt)
               THEN MergeLines(raw_lines, i + 2,
                               Append(front, nxt \o <<".">> \o last))
               ELSE MergeLines(raw_lines, i + 1,
                               Append(RestorePopped(front, last), line))
          ELSE IF /\ line # <<>>
                  /\ line[Len(line)] = "."
                  /\ line # <<".">>
                  /\ Count(line, ".") = 1
                  /\ is_basic_number(body)
          THEN IF merged # <<>> /\ is_basic_number(last)
               THEN MergeLines(raw_lines, i + 1,
                               Append(front, last \o <<".">> \o body))
               ELSE IF hasNext /\ is_basic_number(nxt)
               THEN MergeLines(raw_lines, i + 2,
                               Append(merged, nxt \o <<".">> \o body))
               ELSE MergeLines(raw_lines, i + 1, Append(merged, line))
          ELSE MergeLines(raw_lines, i + 1, Append(merged, line))

\* extract_lines: str -> List[str]
extract_lines(text) ==
    LET cleaned == ReplaceChar(text, "\r", "\n")
        split == SplitOn(cleaned, "\n")
        stripped == [k \in 1..Len(split) |-> Strip(split[k])]
        raw_lines == SelectSeq(stripped, LAMBDA ln : ln # <<>>)
    IN  SelectSeq(MergeLines(raw_lines, 1, <<>>), LAMBDA ln : ln # <<>>)

\* ------------------------------------------------------- money values
\* Inside infer_totals an amount is an integer number of agorot (1/100 of
\* the currency unit); the inputs are drawn so that two fraction digits
\* are exact.
RECURSIVE DigitsToNat(_)
DigitsToNat(s) ==
    IF s = <<>> THEN 0
    ELSE 10 * DigitsToNat(SubSeq(s, 1, Len(s) - 1)) + DigitVal(s[Len(s)])

ToAgorot(dec) ==
    LET frac == dec[3]
        cents == CASE Len(frac) = 0 -> 0
                   [] Len(frac) = 1 -> 10 * DigitVal(frac[1])
                   [] Len(frac) = 2 -> 10 * DigitVal(frac[1]) + DigitVal(frac[2])
    IN  dec[1] * (100 * DigitsToNat(dec[2]) + cents)

\* an Optional[float] in agorot
OptAgorot(v) == IF IsNone(v) THEN None ELSE Some(ToAgorot(Val(v)))

\* parse_number with the result in agorot
parse_amount(raw) == OptAgorot(parse_number(raw))

Abs(x) == IF x < 0 THEN -x ELSE x

RECURSIVE SeqSum(_)
SeqSum(s) == IF s = <<>> THEN 0 ELSE Head(s) + SeqSum(Tail(s))

SeqMax(s) == CHOOSE x \in {s[i] : i \in 1..Len(s)} : \A i \in 1..Len(s) : s[i] <= x

\* ------------------------------------------------- sum_numeric_block
\* Hebrew letters are named; a marker is the sequence of its letters
BlockStartMarkers ==
    << <<"het", "\"", "shin", "bet">>, <<"het", "shin", "bet", " ", "kaf">> >>

BlockEndMarkers ==
    << <<"samekh", "kaf", "nun", "he">>,
       <<"samekh", "he">>,
       <<"samekh", "he", "\"">>,
       <<"samekh", "he", "'", "'", "kaf", " ", "yod", "gimel", "bet", "he">>,
       <<"samekh", "he", "\"", "kaf", " ", "yod", "gimel", "bet", "he">>,
       <<"samekh", "he", "\"", "kaf", " ", "yod", "gimel", "bet", "he">> >>

\* marker in line
IsSubstring(marker, line) ==
    \E k \in 0..(Len(line) - Len(marker)) :
        SubSeq(line, k + 1, k + Len(marker)) = marker

AnyMarkerIn(markers, line) ==
    \E m \in 1..Len(markers) : IsSubstring(markers[m], line)

\* re.match(r"^-?\d[\d,]*(?:\.\d+)?$", token)
IsSignedNumericLine(token) ==
    LET body == IF token # <<>> /\ Head(token) = "-" THEN Tail(token) ELSE token
        dot == FirstIndex(body, ".")
        intpart == IF dot = 0 THEN body ELSE SubSeq(body, 1, dot - 1)
        frac == IF dot = 0 THEN <<>> ELSE SubSeq(body, dot + 1, Len(body))
    IN  /\ intpart # <<>>
        /\ IsDigit(intpart[1])
        /\ \A i \in 1..Len(intpart) : IsDigit(intpart[i]) \/ intpart[i] = ","
        /\ dot # 0 => (frac # <<>> /\ AllDigits(frac))

\* lines 833-836: total, found and values before the loop
BlockStart == [total |-> 0, found |-> FALSE, values |-> <<>>]

\* lines 848-850: total += val; values.append(val); found = True
BlockAdd_Unsigned(acc, val) ==
    [total |-> acc.total + Abs(val), found |-> TRUE,
     values |-> Append(acc.values, val)]
BlockAdd(acc, val) ==
    [total |-> acc.total + val, found |-> TRUE,
     values |-> Append(acc.values, val)]

\* one pass of the loop of sum_numeric_block over lines[i], val being
\* parse_number(token); the result is total, found and values at the end
RECURSIVE BlockLoop(_, _, _, _, _, _)
BlockLine(lines, i, collecting, start_markers, end_markers, acc, token, val) ==
    IF ~collecting /\ AnyMarkerIn(start_markers, lines[i])
    THEN BlockLoop(lines, i + 1, TRUE, start_markers, end_markers, acc)
    ELSE IF collecting /\ AnyMarkerIn(end_markers, lines[i]) THEN acc
    ELSE IF collecting /\ IsSignedNumericLine(token) /\ ~IsNone(val)
    THEN BlockLoop(lines, i + 1, collecting, start_markers, end_markers,
                   BlockAdd(acc, Val(val)))
    ELSE BlockLoop(lines, i + 1, collecting, start_markers, end_markers, acc)

BlockToken(lines, i, collecting, start_markers, end_markers, acc, token) ==
    BlockLine(lines, i, collecting, start_markers, end_markers, acc, token,
              parse_amount(token))

BlockLoop(lines, i, collecting, start_markers, end_markers, acc) ==
    IF i > Len(lines) THEN acc
    ELSE BlockToken(lines, i, collecting, start_markers, end_markers, acc,
                    Strip(lines[i]))

\* return (total if found else None, values)
BlockResult(acc) ==
    <<IF acc.found THEN Some(acc.total) ELSE None, acc.values>>

\* sum_numeric_block -> (Optional[float], List[float])
sum_numeric_block(lines, start_markers, end_markers) ==
    BlockResult(BlockLoop(lines, 1, FALSE, start_markers, end_markers,
                          BlockStart))

\* ------------------------------------------------------- infer_totals
\* A text is modelled by what the searches of infer_totals find in it (the
\* result of each marker or pattern search is a field of the text) and by
\* the lines that extract_lines gives for it.  Rates are in hundredths of
\* a percent.

\* vat_rate_estimate
vat_rate_estimate(total, vat) ==
    IF IsNone(total) \/ IsNone(vat) \/ Val(total) = 0 THEN None
    ELSE LET base == Val(total) - Val(vat)
             n == Val(vat) * 10000
         IN  IF base <= 0 THEN None
             ELSE Some(IF 2 * (n % base) >= base
                       THEN (n \div base) + 1 ELSE n \div base)

\* select_amount with the result in agorot
select_amount_agorot(tokens) == OptAgorot(select_amount(tokens))

\* the values of a list that satisfy a test, in order
Filter(s, Test(_)) == SelectSeq(s, Test)

\* min(s, key): the first element with the least key
FirstMinBy(s, Key(_)) ==
    s[CHOOSE i \in 1..Len(s) :
        /\ \A j \in 1..Len(s) : Key(s[i]) <= Key(s[j])
        /\ \A j \in 1..(i - 1) : Key(s[j]) > Key(s[i])]

\* lines 1091-1094: the block after the total marker, in either spelling
BestTotalBlock(t) ==
    IF t.block_alt # <<>> /\ (t.total_block = <<>>
                              \/ SeqMax(t.block_alt) > SeqMax(t.total_block))
    THEN t.block_alt ELSE t.total_block

\* lines 1157-1171: the "to be charged" block, tried while the total is
\* missing or at most 5
YigbeBlockTotal(t, total) ==
    IF (IsNone(total) \/ Val(total) <= 500) /\ ~IsNone(t.yigbe_block)
    THEN Val(t.yigbe_block) ELSE total

\* lines 1172-1175
YigbeTailTotal(t, total) == IF IsNone(total) THEN t.yigbe_tail ELSE total

\* mutant: the block maximum replaces the total only when it is greater
BlockMaxTotal_OnlyWhenGreater(total_block, total) ==
    IF /\ total_block # <<>>
       /\ SeqMax(total_block) > 0
       /\ (IsNone(total) \/ SeqMax(total_block) > Val(total))
    THEN Some(SeqMax(total_block)) ELSE total

\* lines 1176-1179: a positive block maximum replaces the total
BlockMaxTotal(total_block, total) ==
    IF total_block # <<>> /\ SeqMax(total_block) > 0
    THEN Some(SeqMax(total_block)) ELSE total

\* lines 1180-1185
CurrencyAnchoredTotal(t, total) ==
    IF IsNone(total) THEN t.currency_total ELSE total

\* lines 1186-1192: the currency tokens, last first
CurrencyFallbackTotal(total, fallback_total) ==
    LET selected == IF IsNone(total) THEN fallback_total ELSE total
    IN  IF /\ ~IsNone(selected)
           /\ Val(selected) <= 500
           /\ ~IsNone(fallback_total)
           /\ Val(fallback_total) # 0
           /\ Val(fallback_total) > Val(selected)
        THEN fallback_total ELSE selected

\* lines 1091-1192: the total; t.label_total is what the label, pattern
\* and marker tiers of lines 1097-1156 give, each tried only while the
\* total is still None
InferTotal(t) ==
    CurrencyFallbackTotal(
        CurrencyAnchoredTotal(t,
            BlockMaxTotal(BestTotalBlock(t),
                YigbeTailTotal(t, YigbeBlockTotal(t, t.label_total)))),
        select_amount_agorot(Reverse(t.currency_tokens)))

\* lines 1102, 1193-1208: the base before VAT
InferBase(t, total) ==
    LET total_values == t.total_values \o t.values_alt
        below == IF IsNone(total) THEN <<>>
                 ELSE Filter(t.base_candidates, LAMBDA v : v < Val(total))
        candidates == IF below # <<>> THEN below ELSE t.base_candidates
        base == IF t.base_candidates # <<>> THEN Some(SeqMax(candidates))
                ELSE t.base_inline
        near == IF IsNone(total) THEN <<>>
                ELSE Filter(total_values, LAMBDA v : 0 < v /\ v < Val(total))
    IN  IF IsNone(base) /\ ~IsNone(total) /\ total_values # <<>>
           /\ Val(total) > 0 /\ near # <<>>
        THEN Some(FirstMinBy(near, LAMBDA v : Abs(118 * v - 100 * Val(total))))
        ELSE base

\* lines 1245-1256: a VAT candidate near the standard rate replaces the VAT
ReplacementVat(t, total, vat) ==
    IF IsNone(total) \/ t.vat_candidates = <<>> THEN vat
    ELSE
      LET filtered_vat ==
              SortSeq(Filter(t.vat_candidates, LAMBDA v : 0 < v /\ v < Val(total)),
                      LAMBDA a, b : a < b)
          fits(c) == LET r == vat_rate_estimate(total, Some(c))
                     IN  IsNone(r) \/ Abs(Val(r) - 1800) < 100
      IN  IF filtered_vat = <<>> THEN vat
          ELSE IF \E i \in 1..Len(filtered_vat) : fits(filtered_vat[i])
          THEN Some(filtered_vat[CHOOSE i \in 1..Len(filtered_vat) :
                        /\ fits(filtered_vat[i])
                        /\ \A j \in 1..(i - 1) : ~fits(filtered_vat[j])])
          ELSE Some(filtered_vat[1])

\* lines 1104-1106, 1210-1243: the label, pattern, marker and line tiers
LabelledVat(t) ==
    IF ~IsNone(t.label_vat) THEN t.label_vat
    ELSE IF ~IsNone(t.pattern_vat) THEN t.pattern_vat
    ELSE IF ~IsNone(t.near_vat) THEN t.near_vat
    ELSE t.line_vat

\* lines 1258-1261
DiffVat(total, base, vat) ==
    IF /\ IsNone(vat) /\ ~IsNone(total) /\ ~IsNone(base)
       /\ Val(total) - Val(base) >= 0
    THEN Some(Val(total) - Val(base)) ELSE vat

\* lines 1263-1264
DropVatAboveTotal(total, vat) ==
    IF ~IsNone(vat) /\ ~IsNone(total) /\ Val(vat) > Val(total) THEN None ELSE vat

\* lines 1265-1273
NearMarkerVat(t, vat) == IF IsNone(vat) THEN t.near_vat ELSE vat

\* lines 1275-1283
DiffVatBelowTotal(total, base, vat) ==
    IF /\ IsNone(vat) /\ ~IsNone(total) /\ ~IsNone(base)
       /\ Val(base) < Val(total)
       /\ Val(total) - Val(base) >= 0
    THEN Some(Val(total) - Val(base)) ELSE vat

\* lines 1285-1290
CurrencyAmounts(t, total, vat) ==
    LET parsed == [i \in 1..Len(t.currency_tokens) |->
                       parse_amount(t.currency_tokens[i])]
        present == Filter(parsed, LAMBDA o : ~IsNone(o))
    IN  IF ~IsNone(total) \/ ~IsNone(vat)
        THEN [i \in 1..Len(present) |-> Val(present[i])] ELSE <<>>

\* lines 1293-1304
CurrencyVat(total, vat, currency_amounts) ==
    LET smaller == IF IsNone(total) THEN <<>>
                   ELSE Filter(currency_amounts, LAMBDA a : a < Val(total))
        vat_candidate == Val(total) - SeqMax(smaller)
    IN  IF IsNone(total) \/ smaller = <<>> THEN vat
        ELSE IF IsNone(vat)
        THEN (IF vat_candidate >= 0 THEN Some(vat_candidate) ELSE vat)
        ELSE (IF 0 < vat_candidate /\ vat_candidate < Val(vat)
              THEN Some(vat_candidate) ELSE vat)

CurrencyVatOf(t, total, vat) ==
    CurrencyVat(total, vat, CurrencyAmounts(t, total, vat))

\* lines 1306-1318
RecalculatedVatAt(total, base, vat, rate) ==
    IF /\ ~IsNone(rate)
       /\ ~IsNone(total) /\ ~IsNone(base)
       /\ Val(base) < Val(total)
       /\ Abs(Val(rate) - 1800) > 100
       /\ Val(total) - Val(base) >= 0
    THEN Some(Val(total) - Val(base)) ELSE vat

RecalculatedVat(total, base, vat) ==
    RecalculatedVatAt(total, base, vat, vat_rate_estimate(total, vat))

\* lines 1104-1108, 1210-1318: the VAT before the municipal override
InferVat(t, total, base) ==
    RecalculatedVat(total, base,
        CurrencyVatOf(t, total,
            DiffVatBelowTotal(total, base,
                NearMarkerVat(t,
                    DropVatAboveTotal(total,
                        DiffVat(total, base,
                            ReplacementVat(t, total, LabelledVat(t))))))))

\* lines 1320-1330
IsMunicipalText(t) ==
    t.municipal_marker \/ (t.city_marker /\ t.debt_marker)

\* mutant: the VAT is zeroed only when no earlier tier found one
MunicipalVat_OnlyWhenMissing(is_municipal, vat) ==
    IF is_municipal /\ IsNone(vat) THEN Some(0) ELSE vat

\* lines 1337, 1342: a municipal document has VAT 0.0
MunicipalVat(is_municipal, vat) ==
    IF is_municipal THEN Some(0) ELSE vat

\* mutant: the block sum replaces a missing total only
MunicipalTotal_OnlyWhenMissing(is_municipal, block_sum, total) ==
    IF is_municipal /\ ~IsNone(block_sum) /\ IsNone(total)
    THEN block_sum ELSE total

\* mutant: the block sum replaces a total that differs by more than 10.0
MunicipalTotal_WideTolerance(is_municipal, block_sum, total) ==
    IF /\ is_municipal
       /\ ~IsNone(block_sum)
       /\ (\/ IsNone(total)
           \/ Val(total) < 5000
           \/ Abs(Val(total) - Val(block_sum)) > 1000)
    THEN block_sum ELSE total

\* lines 1337-1341: the municipal block sum replaces the total
MunicipalTotal(is_municipal, block_sum, total) ==
    IF /\ is_municipal
       /\ ~IsNone(block_sum)
       /\ (\/ IsNone(total)
           \/ Val(total) < 5000
           \/ Abs(Val(total) - Val(block_sum)) > 100)
    THEN block_sum ELSE total

\* line 1331: block_source = pdfminer_lines or lines
BlockSource(lines, pdfminer_lines) ==
    IF pdfminer_lines # <<>> THEN pdfminer_lines ELSE lines

\* lines 1337-1355: the municipal override and the returned dict
TotalsResult(t, total, base_before_vat, vat, is_municipal, block) ==
    [ invoice_total |-> MunicipalTotal(is_municipal, block[1], total),
      invoice_vat |-> MunicipalVat(is_municipal, vat),
      vat_rate |-> IF ~IsNone(t.explicit_vat_rate) THEN t.explicit_vat_rate
                   ELSE vat_rate_estimate(
                            MunicipalTotal(is_municipal, block[1], total),
                            MunicipalVat(is_municipal, vat)),
      municipal |-> is_municipal,
      breakdown_sum |-> block[1],
      breakdown_values |-> block[2],
      base_before_vat |-> base_before_vat ]

TotalsFromBase(t, pdfminer_lines, total, base_before_vat) ==
    TotalsResult(t, total, base_before_vat,
                 InferVat(t, total, base_before_vat),
                 IsMunicipalText(t),
                 sum_numeric_block(BlockSource(t.lines, pdfminer_lines),
                                   BlockStartMarkers, BlockEndMarkers))

TotalsFromTotal(t, pdfminer_lines, total) ==
    TotalsFromBase(t, pdfminer_lines, total, InferBase(t, total))

\* infer_totals(lines, text, pdfminer_lines=...) -> dict
infer_totals(t, pdfminer_lines) ==
    TotalsFromTotal(t, pdfminer_lines, InferTotal(t))

\* ---------------------------------------------------------- date tokens
\* A date token is modelled by its shape: "dmy" is DD/MM/YYYY and "my" is
\* M/YYYY, each with its numbers.  A stored date is the string that the
\* code writes.
DigitChar(n) == <<"0", "1", "2", "3", "4", "5", "6", "7", "8", "9">>[n + 1]

Pad2(n) == <<DigitChar(n \div 10), DigitChar(n % 10)>>

RECURSIVE NatDigits(_)
NatDigits(n) ==
    IF n < 10 THEN <<DigitChar(n)>>
    ELSE Append(NatDigits(n \div 10), DigitChar(n % 10))

\* strftime("%Y-%m-%d"): the C library writes %Y without leading zeros
strftime(y, m, d) == NatDigits(y) \o <<"-">> \o Pad2(m) \o <<"-">> \o Pad2(d)

\* lines 251-252: a year below 100 is moved to the 2000s
NormalYear(y) == IF y < 100 THEN 2000 + y ELSE y

\* the text of a token matched by (\d{2}/\d{2}/\d{4})
MatchedDate(token) ==
    Pad2(token.day) \o <<"/">> \o Pad2(token.month) \o <<"/">>
        \o Pad2(token.year \div 100) \o Pad2(token.year % 100)

DaysInMonth(y, m) ==
    IF m = 2 THEN (IF (y % 4 = 0 /\ y % 100 # 0) \/ y % 400 = 0 THEN 29 ELSE 28)
    ELSE IF m \in {4, 6, 9, 11} THEN 30 ELSE 31

ValidDate(y, m, d) ==
    y \in 1..9999 /\ m \in 1..12 /\ d \in 1..DaysInMonth(y, m)

\* normalize_date_token with default_day None: the value, or the fact that
\* calendar.monthrange / date() raised ValueError
normalize_date_token(token) ==
    IF token.form = "dmy"
    THEN IF ValidDate(token.year, token.month, token.day)          \* %d-%m-%Y
         THEN [raises |-> FALSE,
               value |-> Some(strftime(NormalYear(token.year), token.month,
                                        token.day))]
         ELSE IF ValidDate(token.year, token.day, token.month)     \* %m-%d-%Y
         THEN [raises |-> FALSE,
               value |-> Some(strftime(NormalYear(token.year), token.day,
                                        token.month))]
         ELSE [raises |-> FALSE, value |-> None]
    ELSE \* "my": re.match(r"(\d{1,2})-(\d{4})$"), lines 263-269
         IF token.month \in 1..12 /\ token.year \in 1..9999
         THEN [raises |-> FALSE,
               value |-> Some(strftime(token.year, token.month, 1))]
         ELSE [raises |-> TRUE, value |-> None]

\* extract_due_date on a text whose due-date pattern captured t.due_token
extract_due_date(t) ==
    IF IsNone(t.due_token) THEN [raises |-> FALSE, value |-> None]
    ELSE normalize_date_token(Val(t.due_token))

\* ---------------------------------------------------- classify_invoice
\* weights are in 1/10000; a key stands for the marker string of the table
CATEGORY_RULES ==
    << [category |-> "transportation", weight |-> 9500,
        vendor_keys |-> <<"tyrwbyz hrwbht", "tyrwbyzh hrwbht", "hthbwrh hzybwryt",
                          "rb-qw", "wq-br", "ravpass", "rav-kav", "ravkav", "rav kav">>,
        keyword_hits |-> <<"thbwrh zybwryt", "ravpass", "rav-kav", "bus", "train",
                           "light rail", "travel card">>],
       [category |-> "communication", weight |-> 10000,
        vendor_keys |-> <<"bzq", "bezeq", "cellcom", "partner", "prtnr", "hot", "yes",
                          "styng", "stingtv", "rmy lwy", "rmy lwy tqswrt",
                          "rami levy", "rami-levy">>,
        keyword_hits |-> <<"tqswrt", "yntrnt", "internet", "fiber", "broadband">>],
       [category |-> "utilities", weight |-> 9000,
        vendor_keys |-> <<"hshml", "hbrt hhshml", "mym", "tagyd mym", "arnwnh",
                          "city", "municipality">>,
        keyword_hits |-> <<"bill", "utility">>],
       [category |-> "software_saas", weight |-> 8000,
        vendor_keys |-> <<"google", "microsoft", "aws", "stripe", "notion", "slack">>,
        keyword_hits |-> <<"subscription", "license">>],
       [category |-> "finance", weight |-> 7000,
        vendor_keys |-> <<"visa", "mastercard", "amex", "isracard">>,
        keyword_hits |-> <<"krtys ashray">>],
       [category |-> "services", weight |-> 6000,
        vendor_keys |-> <<>>,
        keyword_hits |-> <<"syrwt", "service", "support">>] >>

NoCategory == [category |-> None, confidence |-> None, rule |-> None]

\* the first key of the list that is in the set, None when there is none
FirstKeyIn(keys, present) ==
    IF \E i \in 1..Len(keys) : keys[i] \in present
    THEN Some(keys[CHOOSE i \in 1..Len(keys) :
                       keys[i] \in present /\ \A j \in 1..(i - 1) : keys[j] \notin present])
    ELSE None

\* mutant: a keyword match keeps the rule's full weight
KeywordWeight_Full(weight) == weight

\* line 472: weight * 0.85
KeywordWeight(weight) == (weight * 85) \div 100

\* the rule loop of classify_invoice from rule r
RECURSIVE ClassifyFrom(_, _, _)
ClassifyFrom(r, text_keys, supplier_keys) ==
    IF r > Len(CATEGORY_RULES) THEN NoCategory
    ELSE
      LET rule == CATEGORY_RULES[r]
          vendor_key == FirstKeyIn(rule.vendor_keys, supplier_keys)
          keyword == FirstKeyIn(rule.keyword_hits, text_keys)
      IN  IF ~IsNone(vendor_key)
          THEN [category |-> Some(rule.category), confidence |-> Some(rule.weight),
                rule |-> Some(<<"vendor", Val(vendor_key)>>)]
          ELSE IF ~IsNone(keyword)
          THEN [category |-> Some(rule.category),
                confidence |-> Some(KeywordWeight(rule.weight)),
                rule |-> Some(<<"keyword", Val(keyword)>>)]
          ELSE ClassifyFrom(r + 1, text_keys, supplier_keys)

\* mutant: the municipal flag is looked at only when no rule matches
classify_invoice_RulesFirst(text_keys, supplier_keys, is_municipal) ==
    IF ClassifyFrom(1, text_keys, supplier_keys) # NoCategory
    THEN ClassifyFrom(1, text_keys, supplier_keys)
    ELSE IF is_municipal
    THEN [category |-> Some("municipal_tax"), confidence |-> Some(10000),
          rule |-> Some(<<"municipal_flag">>)]
    ELSE NoCategory

\* classify_invoice(text, supplier, is_municipal): text_keys are the
\* keywords found in the lowered text, supplier_keys the vendor keys found
\* in the lowered supplier name
classify_invoice(text_keys, supplier_keys, is_municipal) ==
    IF is_municipal
    THEN [category |-> Some("municipal_tax"), confidence |-> Some(10000),
          rule |-> Some(<<"municipal_flag">>)]
    ELSE ClassifyFrom(1, text_keys, supplier_keys)

\* ------------------------------------------------------ InvoiceRecord
\* InvoiceRecord(source_file=...): the dataclass defaults
NewRecord(source_file) ==
    [ source_file |-> source_file,
      invoice_id |-> None, invoice_date |-> None, invoice_from |-> None,
      invoice_for |-> None, invoice_total |-> None, invoice_vat |-> None,
      currency |-> Some("shekel"), notes |-> None,
      breakdown_sum |-> None, breakdown_values |-> None,
      base_before_vat |-> None, vat_rate |-> None,
      period_start |-> None, period_end |-> None, period_label |-> None,
      due_date |-> None, category |-> None, category_confidence |-> None,
      category_rule |-> None, reference_numbers |-> None,
      data_source |-> None, parse_confidence |-> None, municipal |-> None,
      duplicate_hash |-> None ]

\* bool(x) of an Optional[float] and of an Optional[str]
TruthyAmount(o) == ~IsNone(o) /\ Val(o) # 0
TruthyStr(o) == ~IsNone(o) /\ Val(o) # ""

\* mutant: a disagreement of total and breakdown sum costs 0.15
AgreementBonus_Penalty(record) ==
    IF TruthyAmount(record.breakdown_sum) /\ TruthyAmount(record.invoice_total)
    THEN (IF Abs(Val(record.breakdown_sum) - Val(record.invoice_total)) <= 100
          THEN 15 ELSE -15)
    ELSE 0

\* lines 482-484
AgreementBonus(record) ==
    IF /\ TruthyAmount(record.breakdown_sum)
       /\ TruthyAmount(record.invoice_total)
       /\ Abs(Val(record.breakdown_sum) - Val(record.invoice_total)) <= 100
    THEN 15 ELSE 0

\* compute_parse_confidence, in hundredths
compute_parse_confidence(record) ==
    LET base == 40
        c1 == IF ~IsNone(record.invoice_total) THEN 25 ELSE 0
        c2 == IF ~IsNone(record.invoice_vat) THEN 10 ELSE 0
        c3 == AgreementBonus(record)
        c4 == IF TruthyStr(record.period_start) \/ TruthyStr(record.period_end)
              THEN 5 ELSE 0
        c5 == IF ~IsNone(record.reference_numbers)
                 /\ Val(record.reference_numbers) # <<>> THEN 5 ELSE 0
        c6 == IF TruthyStr(record.category) THEN 5 ELSE 0
        confidence == base + c1 + c2 + c3 + c4 + c5 + c6
    IN  IF confidence < 99 THEN confidence ELSE 99

\* needs_fallback_text
needs_fallback_text(t) ==
    IF t.chars = 0 THEN TRUE
    ELSE IF t.stripped < 200 THEN TRUE
    ELSE t.hebrew < 15 \/ t.glyphs > 5

\* ------------------------------------------------------- parse_invoice
\* the text of a document that yields no text: ""
EmptyText ==
    [ chars |-> 0, stripped |-> 0, hebrew |-> 0, glyphs |-> 0,
      lines |-> <<>>,
      invoice_id |-> None, invoice_date |-> None, vendor |-> None,
      description |-> None, period |-> None, due_token |-> None,
      refs |-> <<>>, keywords |-> {},
      label_total |-> None, yigbe_block |-> None, yigbe_tail |-> None,
      total_block |-> <<>>, total_values |-> <<>>,
      block_alt |-> <<>>, values_alt |-> <<>>,
      currency_total |-> None, currency_tokens |-> <<>>,
      base_inline |-> None, base_candidates |-> <<>>,
      label_vat |-> None, vat_candidates |-> <<>>, explicit_vat_rate |-> None,
      pattern_vat |-> None, near_vat |-> None, line_vat |-> None,
      municipal_marker |-> FALSE, city_marker |-> FALSE, debt_marker |-> FALSE ]

\* bool(text)
NonEmpty(t) == t.chars > 0

\* the field extractors: what each finds in the text
infer_invoice_id(t) == t.invoice_id
\* infer_invoice_date returns the matched DD/MM/YYYY text as it stands
infer_invoice_date(t) ==
    IF IsNone(t.invoice_date) THEN None
    ELSE Some(MatchedDate(Val(t.invoice_date)))
infer_invoice_from(t) == t.vendor
infer_invoice_for(t) == t.description
extract_period_info(t) == t.period

\* mutant: a reference that was seen before is listed again
RefIsNew_NoDedup(key, ordered) == key # <<>>

\* line 388: the stripped match is kept unless it is empty or seen before
RefIsNew(key, ordered) ==
    key # <<>> /\ \A i \in 1..Len(ordered) : ordered[i] # key

\* lines 385-393: the loop over refs, which stops at five kept references
RECURSIVE OrderedRefs(_, _)
OrderedRefs(refs, ordered) ==
    IF refs = <<>> \/ Len(ordered) >= 5 THEN ordered
    ELSE OrderedRefs(Tail(refs),
                     IF RefIsNew(Strip(Head(refs)), ordered)
                     THEN Append(ordered, Strip(Head(refs)))
                     ELSE ordered)

\* extract_reference_numbers(text): t.refs is the list that lines 382-384
\* build, the matches of the first pattern in text order, then those of
\* the second, then those of the third
extract_reference_numbers(t) == OrderedRefs(t.refs, <<>>)

\* extract_text_with_pymupdf(path): "" without PyMuPDF
extract_text_with_pymupdf(doc, have_pymupdf) ==
    IF have_pymupdf THEN doc.secondary ELSE EmptyText

\* ensure_pymupdf_data: the cache and the number of extractor calls after it
ensure_pymupdf_data(s) ==
    IF ~IsNone(s.pymupdf_text_cache)
    THEN [cache |-> s.pymupdf_text_cache, calls |-> s.pymupdf_calls]
    ELSE IF ~s.have_pymupdf
    THEN [cache |-> Some(EmptyText), calls |-> s.pymupdf_calls]
    ELSE [cache |-> Some(extract_text_with_pymupdf(s.doc, s.have_pymupdf)),
          calls |-> s.pymupdf_calls + 1]

\* "if extra_text and extra_lines"
UsableExtra(t) == NonEmpty(t) /\ t.lines # <<>>

\* invoice_from[:117] + "..." when longer than 120
TruncateVendor(v) ==
    IF ~IsNone(v) /\ Val(v).len > 120
    THEN Some([Val(v) EXCEPT !.len = 120, !.truncated = TRUE])
    ELSE v

\* lines 1359-1362: extract_text(path), "" when it raises
PrimaryText(doc) == IF doc.primary_raises THEN EmptyText ELSE doc.primary

\* line 1364: "if not text_pdfminer"
PrimaryFailed(text_pdfminer) == ~NonEmpty(text_pdfminer)

\* mutant: the primary text stays the chosen text
ChosenText_Primary(text_pdfminer, fallback_text) == text_pdfminer

\* lines 1370-1377: the text the fields are read from
ChosenText(text_pdfminer, fallback_text) ==
    IF NonEmpty(fallback_text) THEN fallback_text ELSE text_pdfminer

\* mutant: the mismatch is noted only beyond ten currency units
TotalsMismatch_Wide(record) ==
    /\ ~IsNone(record.breakdown_sum)
    /\ ~IsNone(record.invoice_total)
    /\ Abs(Val(record.breakdown_sum) - Val(record.invoice_total)) > 1000

\* lines 1456-1460
TotalsMismatch(record) ==
    /\ ~IsNone(record.breakdown_sum)
    /\ ~IsNone(record.invoice_total)
    /\ Abs(Val(record.breakdown_sum) - Val(record.invoice_total)) > 100

\* mutant: the failed record is built with an explicit empty currency
FailedRecord_NoCurrency(source_file) ==
    [NewRecord(source_file) EXCEPT !.notes = Some("extract_text_failed"),
                                   !.currency = None]

\* lines 1365-1368
FailedRecord(source_file) ==
    [NewRecord(source_file) EXCEPT !.notes = Some("extract_text_failed")]

InvIdle ==
    [ pc |-> "idle", doc |-> [name |-> 0], have_pymupdf |-> FALSE,
      text_pdfminer |-> EmptyText, text |-> EmptyText,
      used_fallback |-> FALSE, fallback_text |-> EmptyText,
      pymupdf_text_cache |-> None, pymupdf_calls |-> 0,
      record |-> NewRecord(0), totals |-> None ]

\* the state of parse_invoice(path) on entry
EnterParse(doc, have_pymupdf) ==
    [InvIdle EXCEPT !.pc = "start", !.doc = doc, !.have_pymupdf = have_pymupdf,
                    !.record = NewRecord(doc.name)]

\* ------------------------------------------------------------- inputs
Separators == {".", ","}

DigitRuns ==
    { <<>>, <<"0">>, <<"7">>, <<"1", "2">>, <<"0", "0">>,
      <<"4", "5", "6">>, <<"9", "7", "6">>, <<"1", "2", "3", "4">> }

Prefixes == { <<>>, <<"-">>, <<"+">>, <<" ", "-">>, <<"x">> }

\* digit runs joined by separators, at most n runs
RECURSIVE Bodies(_)
Bodies(n) ==
    IF n <= 1 THEN DigitRuns
    ELSE Bodies(n - 1) \cup
         { b \o <<s>> \o r : b \in Bodies(n - 1), s \in Separators, r \in DigitRuns }

RawTokens == { p \o b : p \in Prefixes, b \in Bodies(MaxGroups) }

SelTokenPool ==
    { <<"2", "0", "2", "4">>, <<"0", "0", "2", "0">>,
      <<"1", "2", ".", "3", "0">>, <<"1", "0", "0">>,
      <<"5", ".", "5", "5", "5">>, <<"5">>, <<"7", ",", "5">>,
      <<"-", "3", "0">>, <<"b", "a", "d">>, <<"1", ".", "2", ".", "3">>,
      <<" ", "2", "0", "2", "5">> }

RECURSIVE SeqsUpTo(_, _)
SeqsUpTo(S, n) ==
    IF n = 0 THEN { <<>> }
    ELSE SeqsUpTo(S, n - 1) \cup
         { Append(s, x) : s \in { t \in SeqsUpTo(S, n - 1) : Len(t) = n - 1 }, x \in S }

LineFragments ==
    { <<>>, <<"5">>, <<"-", "7">>, <<".">>, <<"3", ".">>, <<"x">>,
      <<" ", "1", "2", " ">>, <<"6", "\r", ".">>, <<"1", ".", "5">> }

Texts == { JoinLines(f) : f \in SeqsUpTo(LineFragments, MaxFragments) }

\* lines of a text: named letters for the markers, digits for the amounts
LineNoise == <<"x">>
LineBlockStart == <<"het", "\"", "shin", "bet">>
LineBlockEnd == <<"samekh", "he", "\"">>

BlockNumbers ==
    { <<"1", "0", "0">>, <<"9", "5", ".", "0", "0">>,
      <<"-", "5", ".", "0", "0">>, <<" ", "9", "9", ".", "0", "0">> }

\* extract_lines output holding an amount block of at most n numeric lines
BlockLines(n) ==
    { <<LineNoise, LineBlockStart>> \o v \o <<LineBlockEnd, <<"5", "0">>>> :
        v \in SeqsUpTo(BlockNumbers, n) }
    \cup
    { <<LineNoise>>,
      << <<"x", " ", "het", "shin", "bet", " ", "kaf">>,
         <<"1", ",", "0", "0", "0", ".", "0", "0">>, <<"2", "5", "0">>,
         <<"samekh", "kaf", "nun", "he">> >>,
      <<LineBlockStart, <<"1", "0", "0">>, <<"2", "0", "0">>>>,
      <<LineBlockStart, <<"1", "0", "0">>, <<"1", "2", "a">>, LineBlockStart,
        <<"2", "0", "0">>, LineBlockEnd>>,
      <<LineBlockEnd, <<"1", "0", "0">>, LineBlockStart, <<"2", "0", "0">>,
        LineBlockEnd, LineBlockStart, <<"3", "0", "0">>>> }

VendorBezeq == [name |-> "bzq", colon |-> FALSE, len |-> 3, truncated |-> FALSE,
                keys |-> {"bzq"}]
VendorCity == [name |-> "iriyat", colon |-> FALSE, len |-> 16, truncated |-> FALSE,
               keys |-> {}]

VendorAuthority == [name |-> "rashut", colon |-> FALSE, len |-> 11,
                    truncated |-> FALSE, keys |-> {}]

InvoiceDateToken == [form |-> "dmy", day |-> 28, month |-> 8, year |-> 2025]
DueValid == [form |-> "dmy", day |-> 15, month |-> 10, year |-> 2025]
DueBadMonth == [form |-> "my", day |-> 0, month |-> 13, year |-> 2025]

\* an adequate text with every simple field found and no amounts
BaseText ==
    [EmptyText EXCEPT
        !.chars = 400, !.stripped = 400, !.hebrew = 100, !.glyphs = 0,
        !.lines = <<LineNoise>>,
        !.invoice_id = Some("4553051904"), !.invoice_date = Some(InvoiceDateToken),
        !.vendor = Some(VendorBezeq), !.description = Some("internet"),
        !.keywords = {"yntrnt"}]

\* texts that vary what the total tiers find
TotalTexts ==
    { [BaseText EXCEPT !.label_total = a, !.yigbe_block = y, !.total_block = b,
                       !.currency_total = c, !.currency_tokens = k] :
        a \in {None, Some(400), Some(10000), Some(11800)},
        y \in {None, Some(None), Some(Some(30000))},
        b \in {<<>>, <<9000>>, <<20000, 500>>},
        c \in {None, Some(5000)},
        k \in {<<>>, << <<"1", "1", "8", ".", "0", "0">> >>,
               << <<"1", "0", "0", ".", "0", "0">>, <<"7">> >>} }

\* texts that vary what the VAT and base tiers find
VatTexts ==
    { [BaseText EXCEPT !.label_total = a, !.base_inline = bi,
                       !.base_candidates = bc, !.label_vat = lv,
                       !.vat_candidates = vc, !.near_vat = nv,
                       !.line_vat = pv, !.total_values = tv,
                       !.municipal_marker = m] :
        a \in {None, Some(11800)},
        bi \in {None, Some(10000)},
        bc \in {<<>>, <<10000, 50000>>},
        lv \in {None, Some(1800), Some(20000)},
        vc \in {<<>>, <<2500, 1800>>},
        nv \in {None, Some(1700)},
        pv \in {None, Some(1800)},
        tv \in {<<>>, <<9000, 10000>>},
        m \in BOOLEAN }

\* texts that vary the amount block against the labelled total
BlockTexts ==
    { [BaseText EXCEPT !.lines = l, !.label_total = a, !.label_vat = lv,
                       !.municipal_marker = m] :
        l \in BlockLines(MaxBlockValues),
        a \in {None, Some(4000), Some(10000)},
        lv \in {None, Some(1800)},
        m \in BOOLEAN }

\* texts that vary the simple fields
FieldTexts ==
    { [BaseText EXCEPT !.vendor = v, !.description = d, !.due_token = du,
                       !.city_marker = c, !.debt_marker = c] :
        v \in {None,
               Some([VendorBezeq EXCEPT !.name = ":", !.colon = TRUE, !.keys = {}]),
               Some([VendorBezeq EXCEPT !.name = "long", !.len = 130,
                                        !.keys = {"google"}])},
        d \in {None, Some("internet")},
        du \in {None, Some(DueValid), Some([DueValid EXCEPT !.day = 5, !.month = 13]), Some(DueBadMonth)},
        c \in BOOLEAN }

\* non-empty texts that needs_fallback_text rejects, and two at its limits
BlankText == [EmptyText EXCEPT !.chars = 3]

PoorTexts ==
    { [t EXCEPT !.chars = q.chars, !.stripped = q.stripped,
                !.hebrew = q.hebrew, !.glyphs = q.glyphs] :
        q \in { [chars |-> 199, stripped |-> 199, hebrew |-> 40, glyphs |-> 0],
                [chars |-> 250, stripped |-> 250, hebrew |-> 14, glyphs |-> 0],
                [chars |-> 250, stripped |-> 250, hebrew |-> 40, glyphs |-> 6],
                [chars |-> 80, stripped |-> 80, hebrew |-> 0, glyphs |-> 8] },
        t \in { [BaseText EXCEPT !.lines = l, !.municipal_marker = TRUE,
                                 !.label_total = Some(10000),
                                 !.invoice_id = Some("primary-id")] :
                  l \in { <<LineNoise>>,
                          <<LineBlockStart, <<"1", "0", "0">>, LineBlockEnd>>,
                          <<LineBlockStart, <<"9", "5", ".", "0", "0">>, LineBlockEnd>> } } }
    \cup { BlankText }

LimitTexts ==
    { [BaseText EXCEPT !.chars = 200, !.stripped = 200, !.hebrew = 15, !.glyphs = 5],
      [BaseText EXCEPT !.chars = 230, !.stripped = 199] }

MunicipalSecondary ==
    [BaseText EXCEPT !.vendor = Some(VendorCity), !.municipal_marker = TRUE,
                     !.label_total = Some(10000), !.label_vat = Some(1800),
                     !.invoice_id = Some("secondary-id"),
                     !.due_token = Some(DueValid), !.refs = << <<"1", "2", "3", "4", "5">> >>]

ShortSecondary ==
    [BaseText EXCEPT !.label_total = Some(11800), !.label_vat = Some(1800),
                     !.lines = <<LineBlockStart, <<"1", "0", "0">>, LineBlockEnd>>,
                     !.chars = 80, !.stripped = 80, !.hebrew = 10]

SecondaryTexts ==
    { EmptyText, BlankText, MunicipalSecondary, ShortSecondary,
      [BaseText EXCEPT !.vendor = None, !.description = None,
                       !.city_marker = TRUE, !.debt_marker = TRUE] }

\* a PDF file: what each extractor returns for it
Document(p, s) ==
    [name |-> 1, exists |-> TRUE, primary |-> p, secondary |-> s,
     primary_raises |-> FALSE]

\* adequate primaries never reach the secondary text unless a field is missing
Documents ==
    { Document(p, MunicipalSecondary) :
        p \in TotalTexts \cup VatTexts \cup BlockTexts }
    \cup
    { Document(p, s) :
        p \in FieldTexts \cup PoorTexts \cup LimitTexts \cup {EmptyText},
        s \in SecondaryTexts }
    \cup
    { [Document(BaseText, s) EXCEPT !.primary_raises = TRUE] : s \in SecondaryTexts }

\* the files of a batch
ShortPrimary ==
    [BaseText EXCEPT !.chars = 199, !.stripped = 199, !.hebrew = 40,
                     !.invoice_id = Some("primary-id"),
                     !.lines = <<LineBlockStart, <<"1", "0", "0">>, LineBlockEnd>>]

GarbledPrimary ==
    [BaseText EXCEPT !.chars = 80, !.stripped = 80, !.hebrew = 0, !.glyphs = 8,
                     !.invoice_id = None, !.vendor = None,
                     !.lines = <<LineBlockStart, <<"9", "5", ".", "0", "0">>,
                                 LineBlockEnd>>]

BatchDocuments ==
    { Document(p, s) : p \in {ShortPrimary, GarbledPrimary, BlankText},
                       s \in {MunicipalSecondary, ShortSecondary} }
    \cup
    { Document(BaseText, MunicipalSecondary),
      Document(EmptyText, MunicipalSecondary),
      Document(ShortPrimary, EmptyText),
      Document([BaseText EXCEPT !.due_token = Some(DueBadMonth)], ShortSecondary),
      [Document(BaseText, EmptyText) EXCEPT !.exists = FALSE] }

BatchIdle ==
    [pc |-> "idle", dir_exists |-> TRUE, have_pymupdf |-> FALSE,
     selected_files |-> None, pdfs |-> <<>>,
     candidates |-> <<>>, idx |-> 0, records |-> <<>>, csv |-> <<>>]
\* no pure function is being applied
FnIdle == [op |-> "idle"]

LrIdle == [pc |-> "idle", text |-> <<>>, once |-> <<>>, twice |-> <<>>]
NumIdle == [pc |-> "idle", raw |-> <<>>, norm |-> None, val |-> None]
SelIdle == [pc |-> "idle", tokens |-> <<>>, result |-> None]

\* ------------------------------------------- specification: normaliser
NumInit ==
    /\ fn = FnIdle
    /\ num \in [pc : {"start"}, raw : RawTokens, norm : {None}, val : {None}]
    /\ sel = SelIdle
    /\ lr = LrIdle
    /\ inv = InvIdle
    /\ batch = BatchIdle

NormalizeToken ==
    /\ num.pc = "start"
    /\ num' = [num EXCEPT !.pc = "normalized",
                          !.norm = normalize_amount_token(num.raw)]
    /\ UNCHANGED <<sel, lr, inv, batch, fn>>

ParseToken ==
    /\ num.pc = "normalized"
    /\ num' = [num EXCEPT !.pc = "parsed", !.val = parse_number(num.raw)]
    /\ UNCHANGED <<sel, lr, inv, batch, fn>>

NumNext == NormalizeToken \/ ParseToken

SpecNum == NumInit /\ [][NumNext]_vars

\* ----------------------------------------- specification: select_amount
SelInit ==
    /\ fn = FnIdle
    /\ sel \in [pc : {"start"}, tokens : SeqsUpTo(SelTokenPool, MaxTokens),
                result : {None}]
    /\ num = NumIdle
    /\ lr = LrIdle
    /\ inv = InvIdle
    /\ batch = BatchIdle

SelectAmount ==
    /\ sel.pc = "start"
    /\ sel' = [sel EXCEPT !.pc = "done", !.result = select_amount(sel.tokens)]
    /\ UNCHANGED <<num, lr, inv, batch, fn>>

SelNext == SelectAmount

SpecSel == SelInit /\ [][SelNext]_vars


\* ------------------------------------------------ numeric properties
DigitsAndDot(s) == SelectSeq(s, LAMBDA c : IsDigit(c) \/ c = ".")
DigitsOnly(s) == SelectSeq(s, LAMBDA c : IsDigit(c))
NumericChars(s) == SelectSeq(s, LAMBDA c : IsDigit(c) \/ c \in {".", ","})
StartsWithMinus(s) == s # <<>> /\ Head(s) = "-"

\* optional sign, digits, optionally a dot and at most two digits, no commas
WellFormedDecimal(s) ==
    LET body == IF s # <<>> /\ Head(s) \in {"-", "+"} THEN Tail(s) ELSE s
        dot == FirstIndex(body, ".")
        intpart == IF dot = 0 THEN body ELSE SubSeq(body, 1, dot - 1)
        frac == IF dot = 0 THEN <<>> ELSE SubSeq(body, dot + 1, Len(body))
    IN  /\ intpart # <<>>
        /\ AllDigits(intpart)
        /\ AllDigits(frac)
        /\ Len(frac) <= 2

\* C8: numeric round-trip.  For a well-formed decimal string with at most
\* two fractional digits, parse_number gives the value of a direct decimal
\* parse, and normalize_amount_token keeps its digits, its dot and its sign.
C8_NumericRoundTrip ==
    (num.pc = "parsed" /\ WellFormedDecimal(num.raw)) =>
        /\ ~IsNone(num.val)
        /\ num.val = ParseFloat(num.raw)
        /\ ~IsNone(num.norm)
        /\ DigitsAndDot(Val(num.norm)) = DigitsAndDot(num.raw)
        /\ StartsWithMinus(Val(num.norm)) <=> StartsWithMinus(num.raw)

C8_Witness ==
    /\ num.pc = "parsed"
    /\ num.raw = <<"-", "1", "2", ".", "0", "0">>
    /\ num.val = Some(<<-1, <<"1", "2">>, <<>>>>)

\* C10: reversed-thousands repair.  When the numeric characters of a token
\* have the form digits '.' three-digits, the two groups are swapped if the
\* integer part has at most two digits and the whole string is reversed
\* otherwise; the digits of any other token keep their order.
C10_ReversedThousandsRepair ==
    (num.pc # "start" /\ NumericChars(num.raw) # <<>>) =>
        LET body == NumericChars(num.raw)
            dot == FirstIndex(body, ".")
            head == SubSeq(body, 1, dot - 1)
            tail == SubSeq(body, dot + 1, Len(body))
            isForm == /\ Count(body, ".") = 1
                      /\ ~Contains(body, ",")
                      /\ head # <<>>
                      /\ Len(tail) = 3
            out == Val(num.norm)
            unsigned == IF StartsWithMinus(out) THEN Tail(out) ELSE out
        IN  /\ ~IsNone(num.norm)
            /\ (isForm /\ Len(head) <= 2) => unsigned = tail \o <<".">> \o head
            /\ (isForm /\ Len(head) > 2) => unsigned = Reverse(body)
            /\ ~isForm => DigitsOnly(unsigned) = DigitsOnly(num.raw)

C10_Witness ==
    /\ num.pc = "normalized"
    /\ num.raw = <<"1", "2", "3", "4", ".", "4", "5", "6">>
    /\ num.norm = Some(<<"6", "5", "4", ".", "4", "3", "2", "1">>)

\* ---------------------------------------------- selection properties
\* the token is, up to surrounding junk, a four-digit year 20xx
IsYearToken(t) ==
    LET n == NumericChars(t)
    IN  /\ ~StartsWithMinus(Strip(t))
        /\ Len(n) = 4
        /\ AllDigits(n)
        /\ SubSeq(n, 1, 2) = <<"2", "0">>

\* the normalized forms that float() accepts, years left out, in order
Survivors(tokens) ==
    LET norm(t) == normalize_amount_token(t)
        keep(t) == /\ ~IsNone(norm(t))
                   /\ ~IsYearToken(t)
                   /\ ~IsNone(ParseFloat(Val(norm(t))))
        kept == SelectSeq(tokens, keep)
    IN  [i \in 1..Len(kept) |-> Val(norm(kept[i]))]

FirstIdx(s, Test(_)) ==
    CHOOSE i \in 1..Len(s) : Test(s[i]) /\ \A j \in 1..(i - 1) : ~Test(s[j])

\* C9: selection law.  A four-digit token beginning with "20" is never a
\* candidate; the result is the first candidate with exactly two decimals,
\* else the first with a decimal point, else the first >= 10, else the
\* first candidate, and None only when no candidate survives.
C9_SelectionLaw ==
    sel.pc = "done" =>
        LET C == Survivors(sel.tokens)
            value(n) == Val(ParseFloat(n))
            twoDec(n) == Contains(n, ".") /\ Len(n) - FirstIndex(n, ".") = 2
            hasDot(n) == Contains(n, ".")
            big(n) == DecGeqTen(value(n))
            noYears == SelectSeq(sel.tokens, LAMBDA t : ~IsYearToken(t))
        IN  /\ sel.result = select_amount(noYears)
            /\ IsNone(sel.result) <=> C = <<>>
            /\ IF \E i \in 1..Len(C) : twoDec(C[i])
               THEN sel.result = Some(value(C[FirstIdx(C, twoDec)]))
               ELSE IF \E i \in 1..Len(C) : hasDot(C[i])
               THEN sel.result = Some(value(C[FirstIdx(C, hasDot)]))
               ELSE IF \E i \in 1..Len(C) : big(C[i])
               THEN sel.result = Some(value(C[FirstIdx(C, big)]))
               ELSE C # <<>> => sel.result = Some(value(C[1]))

C9_Witness ==
    /\ sel.pc = "done"
    /\ sel.tokens = << <<"2", "0", "2", "4">>, <<"1", "0", "0">>,
                       <<"1", "2", ".", "3", "0">> >>
    /\ sel.result = Some(<<1, <<"1", "2">>, <<"3">>>>)


\* --------------------------------------- specification: extract_lines
LrInit ==
    /\ fn = FnIdle
    /\ lr \in [pc : {"start"}, text : Texts, once : {<<>>}, twice : {<<>>}]
    /\ num = NumIdle
    /\ sel = SelIdle
    /\ inv = InvIdle
    /\ batch = BatchIdle

ExtractLines ==
    /\ lr.pc = "start"
    /\ lr' = [lr EXCEPT !.pc = "once", !.once = extract_lines(lr.text)]
    /\ UNCHANGED <<num, sel, inv, batch, fn>>

ExtractLinesAgain ==
    /\ lr.pc = "once"
    /\ lr' = [lr EXCEPT !.pc = "twice",
                        !.twice = extract_lines(JoinLines(lr.once))]
    /\ UNCHANGED <<num, sel, inv, batch, fn>>

LrNext == ExtractLines \/ ExtractLinesAgain

SpecLines == LrInit /\ [][LrNext]_vars

\* C7: idempotence of line reconstruction.  extract_lines applied to the
\* newline-joined output of extract_lines gives that output again.
C7_ExtractLinesIdempotent ==
    lr.pc = "twice" => lr.twice = lr.once

\* a split decimal was merged on the first pass and survives the second
C7_Witness ==
    /\ lr.pc = "twice"
    /\ lr.text = <<"x", "\n", "5", "\n", ".", "\n", "-", "7">>
    /\ lr.once = << <<"x">>, <<"-", "7", ".", "5">> >>
    /\ lr.twice = lr.once


\* --------------------------------------- specification: parse_invoice
\* lines 1359-1368: the primary extraction and the early return
ExtractPrimary ==
    /\ inv.pc = "start"
    /\ LET text_pdfminer == PrimaryText(inv.doc)
       IN  inv' = IF PrimaryFailed(text_pdfminer)
                  THEN [inv EXCEPT !.pc = "done",
                                   !.text_pdfminer = text_pdfminer,
                                   !.record = FailedRecord(inv.doc.name)]
                  ELSE [inv EXCEPT !.pc = "extracted",
                                   !.text_pdfminer = text_pdfminer]
    /\ UNCHANGED <<num, sel, lr, batch, fn>>

\* lines 1370-1384: the quality check and the secondary extraction
SelectText ==
    /\ inv.pc = "extracted"
    /\ LET needed == needs_fallback_text(inv.text_pdfminer)
           fallback_text == IF needed
                            THEN extract_text_with_pymupdf(inv.doc, inv.have_pymupdf)
                            ELSE EmptyText
           used == NonEmpty(fallback_text)
       IN  inv' = [inv EXCEPT
                     !.pc = "selected",
                     !.fallback_text = fallback_text,
                     !.text = ChosenText(inv.text_pdfminer, fallback_text),
                     !.used_fallback = used,
                     !.pymupdf_text_cache = IF used THEN Some(fallback_text) ELSE None,
                     !.pymupdf_calls = IF needed THEN inv.pymupdf_calls + 1
                                       ELSE inv.pymupdf_calls]
    /\ UNCHANGED <<num, sel, lr, batch, fn>>

\* lines 1419-1421
InferIdentity ==
    /\ inv.pc = "selected"
    /\ inv' = [inv EXCEPT !.pc = "identified",
                          !.record = [NewRecord(inv.doc.name) EXCEPT
                                        !.invoice_id = infer_invoice_id(inv.text),
                                        !.invoice_date = infer_invoice_date(inv.text)]]
    /\ UNCHANGED <<num, sel, lr, batch, fn>>

\* lines 1422-1432
InferVendor ==
    /\ inv.pc = "identified"
    /\ LET invoice_from == infer_invoice_from(inv.text)
           asks == IsNone(invoice_from) \/ Val(invoice_from).colon
           ensured == ensure_pymupdf_data(inv)
           extra == Val(ensured.cache)
           alt_from == infer_invoice_from(extra)
           chosen == IF asks /\ UsableExtra(extra) /\ ~IsNone(alt_from)
                     THEN alt_from ELSE invoice_from
       IN  inv' = [inv EXCEPT
                     !.pc = "vendor",
                     !.pymupdf_text_cache = IF asks THEN ensured.cache ELSE @,
                     !.pymupdf_calls = IF asks THEN ensured.calls ELSE @,
                     !.record = [@ EXCEPT !.invoice_from = TruncateVendor(chosen)]]
    /\ UNCHANGED <<num, sel, lr, batch, fn>>

\* lines 1433-1439
InferDescription ==
    /\ inv.pc = "vendor"
    /\ LET invoice_for == infer_invoice_for(inv.text)
           asks == IsNone(invoice_for)
           ensured == ensure_pymupdf_data(inv)
           extra == Val(ensured.cache)
           chosen == IF asks /\ UsableExtra(extra) THEN infer_invoice_for(extra)
                     ELSE invoice_for
       IN  inv' = [inv EXCEPT
                     !.pc = "described",
                     !.pymupdf_text_cache = IF asks THEN ensured.cache ELSE @,
                     !.pymupdf_calls = IF asks THEN ensured.calls ELSE @,
                     !.record = [@ EXCEPT !.invoice_for = chosen]]
    /\ UNCHANGED <<num, sel, lr, batch, fn>>

\* lines 1448-1473: the totals, the mismatch note and the municipal defaults
ApplyTotals(record, totals, text) ==
    LET r1 == [record EXCEPT
                 !.invoice_total = totals.invoice_total,
                 !.invoice_vat = totals.invoice_vat,
                 !.breakdown_sum = totals.breakdown_sum,
                 !.breakdown_values = IF totals.breakdown_values # <<>>
                                      THEN Some(totals.breakdown_values) ELSE @,
                 !.base_before_vat = totals.base_before_vat,
                 !.vat_rate = totals.vat_rate,
                 !.municipal = Some(totals.municipal)]
        r2 == IF TotalsMismatch(r1)
              THEN [r1 EXCEPT !.notes = Some("Total differs from breakdown sum")]
              ELSE r1
    IN  IF totals.municipal
        THEN [r2 EXCEPT
                !.invoice_from =
                    IF ~IsNone(@) THEN @
                    ELSE IF text.city_marker THEN Some(VendorCity)
                    ELSE Some(VendorAuthority),
                !.invoice_vat = IF IsNone(@) THEN Some(0) ELSE @]
        ELSE r2

SetTotals(s, totals) ==
    [s EXCEPT !.pc = "totals", !.totals = Some(totals),
              !.record = ApplyTotals(s.record, totals, s.text)]

\* lines 1440-1473
InferTotals ==
    /\ inv.pc = "described"
    /\ inv' = SetTotals(inv, infer_totals(inv.text, inv.text_pdfminer.lines))
    /\ UNCHANGED <<num, sel, lr, batch, fn>>

\* the vendor keys found in record.invoice_from
SupplierKeys(record) ==
    IF IsNone(record.invoice_from) THEN {} ELSE Val(record.invoice_from).keys

\* lines 1474-1477
SetPeriod(record, period) ==
    [record EXCEPT
       !.period_start = IF IsNone(period) THEN None ELSE Some(Val(period)[1]),
       !.period_end = IF IsNone(period) THEN None ELSE Some(Val(period)[2]),
       !.period_label = IF IsNone(period) THEN None ELSE Some(Val(period)[3])]

\* lines 1479-1481
SetReferences(record, references) ==
    [record EXCEPT !.reference_numbers =
                       IF references # <<>> THEN Some(references) ELSE @]

\* lines 1482-1487
SetCategory(record, cls) ==
    [record EXCEPT !.category = cls.category,
                   !.category_confidence = cls.confidence,
                   !.category_rule = cls.rule]

\* lines 1488-1490
SetProvenance(record, used_fallback, name) ==
    [record EXCEPT !.data_source = IF used_fallback THEN Some("pymupdf")
                                   ELSE Some("pdfminer"),
                   !.duplicate_hash = Some(<<"sha256", name>>)]

SetConfidence(record) ==
    [record EXCEPT !.parse_confidence = Some(compute_parse_confidence(record))]

\* lines 1478-1490, from the due date on
FinishFrom(s, record, due) ==
    IF due.raises THEN [s EXCEPT !.pc = "raised"]
    ELSE [s EXCEPT
            !.pc = "done",
            !.record =
                SetConfidence(
                    SetProvenance(
                        SetCategory(
                            SetReferences([record EXCEPT !.due_date = due.value],
                                          extract_reference_numbers(s.text)),
                            classify_invoice(
                                s.text.keywords, SupplierKeys(record),
                                ~IsNone(record.municipal) /\ Val(record.municipal))),
                        s.used_fallback, s.doc.name))]

\* lines 1474-1498; extract_due_date may raise out of parse_invoice
FinishRecord ==
    /\ inv.pc = "totals"
    /\ inv' = FinishFrom(inv, SetPeriod(inv.record, extract_period_info(inv.text)),
                         extract_due_date(inv.text))
    /\ UNCHANGED <<num, sel, lr, batch, fn>>

ParseStep ==
    \/ ExtractPrimary
    \/ SelectText
    \/ InferIdentity
    \/ InferVendor
    \/ InferDescription
    \/ InferTotals
    \/ FinishRecord

ParseInit ==
    /\ fn = FnIdle
    /\ \E doc \in Documents, have \in BOOLEAN : inv = EnterParse(doc, have)
    /\ num = NumIdle
    /\ sel = SelIdle
    /\ lr = LrIdle
    /\ batch = BatchIdle

SpecParse == ParseInit /\ [][ParseStep]_vars

\* ------------------------------------- specification: generate_report
\* lines 1507-1520: the directory check and the candidate list
Candidates_of(selected_files, pdfs) ==
    IF ~IsNone(selected_files) /\ Val(selected_files) # <<>>    \* "if selected_files:"
    THEN Val(selected_files)
    ELSE pdfs                                 \* sorted(input_dir.glob("*.pdf"))

CheckInputDir ==
    /\ batch.pc = "start"
    /\ batch' = [batch EXCEPT !.pc = IF batch.dir_exists THEN "loop" ELSE "no_input_dir",
                              !.candidates = Candidates_of(batch.selected_files, batch.pdfs),
                              !.idx = 1]
    /\ UNCHANGED <<num, sel, lr, inv, fn>>

\* lines 1522-1526: a missing file is skipped
SkipMissing ==
    /\ batch.pc = "loop"
    /\ batch.idx <= Len(batch.candidates)
    /\ ~batch.candidates[batch.idx].exists
    /\ batch' = [batch EXCEPT !.idx = @ + 1]
    /\ UNCHANGED <<num, sel, lr, inv, fn>>

\* line 1527: parse_invoice(path) is entered
BeginParse ==
    /\ batch.pc = "loop"
    /\ batch.idx <= Len(batch.candidates)
    /\ batch.candidates[batch.idx].exists
    /\ batch' = [batch EXCEPT !.pc = "parsing"]
    /\ inv' = EnterParse(batch.candidates[batch.idx], batch.have_pymupdf)
    /\ UNCHANGED <<num, sel, lr, fn>>

\* line 1527: records.append(...) with the record parse_invoice returned
AppendRecord ==
    /\ batch.pc = "parsing"
    /\ inv.pc = "done"
    /\ batch' = [batch EXCEPT !.pc = "loop", !.idx = @ + 1,
                              !.records = Append(@, inv.record)]
    /\ inv' = InvIdle
    /\ UNCHANGED <<num, sel, lr, fn>>

\* line 1527: nothing catches what parse_invoice raises
PropagateException ==
    /\ batch.pc = "parsing"
    /\ inv.pc = "raised"
    /\ batch' = [batch EXCEPT !.pc = "raised"]
    /\ inv' = InvIdle
    /\ UNCHANGED <<num, sel, lr, fn>>

\* line 1528
ReturnRecords ==
    /\ batch.pc = "loop"
    /\ batch.idx > Len(batch.candidates)
    /\ batch' = [batch EXCEPT !.pc = "returned"]
    /\ UNCHANGED <<num, sel, lr, inv, fn>>

\* write_csv: the columns, in the order of the header row
CsvFields ==
    << "source_file", "invoice_id", "invoice_date", "invoice_from",
       "invoice_for", "invoice_total", "invoice_vat", "currency",
       "breakdown_sum", "breakdown_values", "notes", "base_before_vat",
       "vat_rate", "period_start", "period_end", "period_label", "due_date",
       "category", "category_confidence", "category_rule",
       "reference_numbers", "data_source", "parse_confidence", "municipal",
       "duplicate_hash" >>

\* to_csv_row: the cell of one value; a float is written with two
\* decimals, a bool as true/false, a list as JSON, None as the empty cell
CsvCell(field, value) ==
    IF field = "source_file" THEN <<"str", value>>
    ELSE IF IsNone(value) THEN <<>>
    ELSE IF field \in {"invoice_total", "invoice_vat", "breakdown_sum",
                       "base_before_vat", "vat_rate", "category_confidence",
                       "parse_confidence"}
    THEN <<"%.2f", Val(value)>>
    ELSE IF field = "municipal"
    THEN <<IF Val(value) THEN "true" ELSE "false">>
    ELSE IF field \in {"breakdown_values", "reference_numbers"}
    THEN <<"json", Val(value)>>
    ELSE <<"str", Val(value)>>

to_csv_row(record, fields) ==
    [k \in 1..Len(fields) |-> CsvCell(fields[k], record[fields[k]])]

\* main, lines 1607-1609: write_csv(records, path) after generate_report
\* returned: the header row, then one row per record
WriteCsv ==
    /\ batch.pc = "returned"
    /\ batch' = [batch EXCEPT
                   !.pc = "written",
                   !.csv = <<CsvFields>> \o
                           [k \in 1..Len(batch.records) |->
                               to_csv_row(batch.records[k], CsvFields)]]
    /\ UNCHANGED <<num, sel, lr, inv, fn>>

\* the files of the batch, named by their place in the candidate list
Named(docs) == [i \in 1..Len(docs) |-> [docs[i] EXCEPT !.name = i]]

\* the files of the input directory, in the order of their names
Existing(docs) == SelectSeq(docs, LAMBDA d : d.exists)

\* the caller passes no selection, an empty one, or the names of docs
Selections(docs) == {None, Some(<<>>), Some(docs)}

BatchInit ==
    /\ fn = FnIdle
    /\ \E docs \in SeqsUpTo(BatchDocuments, MaxDocs), have \in BOOLEAN, dir \in BOOLEAN :
         \E selected \in Selections(Named(docs)) :
             batch = [pc |-> "start", dir_exists |-> dir, have_pymupdf |-> have,
                      selected_files |-> selected, pdfs |-> Existing(Named(docs)),
                      candidates |-> <<>>, idx |-> 0, records |-> <<>>,
                      csv |-> <<>>]
    /\ inv = InvIdle
    /\ num = NumIdle
    /\ sel = SelIdle
    /\ lr = LrIdle

BatchNext ==
    \/ CheckInputDir
    \/ SkipMissing
    \/ BeginParse
    \/ ParseStep
    \/ AppendRecord
    \/ PropagateException
    \/ ReturnRecords
    \/ WriteCsv

SpecBatch == BatchInit /\ [][BatchNext]_vars

\* ------------------------------------------- properties: parse_invoice
\* C1: whenever infer_totals reports a municipal document, its invoice_vat
\* is 0.0, and so is the invoice_vat of the record parse_invoice builds
\* from it, whatever the VAT tiers found
C1_MunicipalVatZero ==
    /\ (~IsNone(inv.totals) /\ Val(inv.totals).municipal)
           => Val(inv.totals).invoice_vat = Some(0)
    /\ (inv.pc \in {"totals", "done"} /\ inv.record.municipal = Some(TRUE))
           => inv.record.invoice_vat = Some(0)

\* a municipal record whose text carries a labelled VAT amount
C1_Witness ==
    /\ inv.pc = "done"
    /\ inv.record.municipal = Some(TRUE)
    /\ inv.text.label_vat = Some(1800)
    /\ inv.record.invoice_vat = Some(0)

\* the record holds a total and a breakdown sum more than 1.0 apart
Mismatched(record) ==
    /\ ~IsNone(record.invoice_total)
    /\ ~IsNone(record.breakdown_sum)
    /\ Abs(Val(record.invoice_total) - Val(record.breakdown_sum)) > 100

\* every field set before the comparison still holds what was inferred
FieldsIntact(s) ==
    /\ s.record.source_file = s.doc.name
    /\ s.record.currency = Some("shekel")
    /\ s.record.invoice_id = infer_invoice_id(s.text)
    /\ s.record.invoice_date = infer_invoice_date(s.text)
    /\ ~IsNone(infer_invoice_from(s.text)) => ~IsNone(s.record.invoice_from)
    /\ ~IsNone(infer_invoice_for(s.text)) => ~IsNone(s.record.invoice_for)
    /\ s.record.invoice_total = Val(s.totals).invoice_total
    /\ s.record.invoice_vat = Val(s.totals).invoice_vat
    /\ s.record.breakdown_sum = Val(s.totals).breakdown_sum
    /\ s.record.breakdown_values = Some(Val(s.totals).breakdown_values)
    /\ s.record.base_before_vat = Val(s.totals).base_before_vat
    /\ s.record.vat_rate = Val(s.totals).vat_rate
    /\ s.record.municipal = Some(Val(s.totals).municipal)

\* C2: a record whose invoice_total and breakdown_sum are both present and
\* differ by more than 1.0 carries the note "Total differs from breakdown
\* sum", and no field is cleared because of the mismatch
C2_MismatchNoted ==
    (inv.pc \in {"totals", "done"} /\ Mismatched(inv.record))
        => /\ inv.record.notes = Some("Total differs from breakdown sum")
           /\ FieldsIntact(inv)

\* total 100.00 against a breakdown of 95.00, returned with the note
C2_Witness ==
    /\ inv.pc = "done"
    /\ inv.record.invoice_total = Some(10000)
    /\ inv.record.breakdown_sum = Some(9500)
    /\ inv.record.notes = Some("Total differs from breakdown sum")

\* C3: whenever the primary output is inadequate (the empty output
\* included) and the secondary extractor gives non-empty text, the record
\* is built from the secondary text and tagged with the secondary backend
C3_FallbackOnInadequate ==
    (/\ inv.pc = "done"
     /\ needs_fallback_text(PrimaryText(inv.doc))
     /\ NonEmpty(extract_text_with_pymupdf(inv.doc, inv.have_pymupdf)))
        => /\ inv.text = inv.doc.secondary
           /\ inv.record.data_source = Some("pymupdf")

\* both backends give the empty string for the document being parsed
BothEmpty ==
    /\ inv.pc # "idle"
    /\ ~NonEmpty(PrimaryText(inv.doc))
    /\ ~NonEmpty(extract_text_with_pymupdf(inv.doc, inv.have_pymupdf))

OtherFields == DOMAIN NewRecord(0) \ {"source_file", "notes"}

\* C4 as stated: when both backends give the empty string, parse_invoice
\* does not raise and returns a record with source_file set, notes
\* "extract_text_failed" and every other field null
C4_FailedRecordAllNull ==
    BothEmpty =>
        /\ inv.pc # "raised"
        /\ inv.pc = "done" =>
              /\ inv.record.source_file = inv.doc.name
              /\ inv.record.notes = Some("extract_text_failed")
              /\ \A f \in OtherFields : inv.record[f] = None

\* C4 amended: when both backends give the empty string, parse_invoice
\* does not raise and returns a record with source_file set, notes
\* "extract_text_failed", currency at its default symbol and every other
\* field null
C4_FailedRecordDefaults ==
    BothEmpty =>
        /\ inv.pc # "raised"
        /\ inv.pc = "done" =>
              /\ inv.record.source_file = inv.doc.name
              /\ inv.record.notes = Some("extract_text_failed")
              /\ inv.record.currency = Some("shekel")
              /\ \A f \in OtherFields \ {"currency"} : inv.record[f] = None

\* the record returned for a document with no text in either backend
C4_Witness ==
    /\ BothEmpty
    /\ inv.pc = "done"
    /\ inv.have_pymupdf
    /\ inv.record.notes = Some("extract_text_failed")

\* ----------------------------------------- properties: generate_report
DocOf(record) ==
    batch.candidates[CHOOSE k \in 1..Len(batch.candidates) :
                         batch.candidates[k].name = record.source_file]

\* two records built from the same selected secondary text over different
\* primary texts
SameSecondary(r1, r2) ==
    /\ r1.data_source = Some("pymupdf")
    /\ r2.data_source = Some("pymupdf")
    /\ DocOf(r1).secondary = DocOf(r2).secondary
    /\ DocOf(r1).primary # DocOf(r2).primary

ListedFields ==
    { "invoice_id", "invoice_date", "invoice_from", "invoice_for",
      "invoice_total", "invoice_vat", "breakdown_sum", "breakdown_values",
      "period_start", "period_end", "period_label", "reference_numbers",
      "category" }

\* C5 as stated: two documents with the same selected secondary text and
\* different inadequate primary texts give records equal in identifier,
\* date, vendor, description, total, VAT, breakdown_sum, breakdown_values,
\* period, references and category
C5_SecondaryAlone ==
    \A i, j \in 1..Len(batch.records) :
        SameSecondary(batch.records[i], batch.records[j])
            => \A f \in ListedFields : batch.records[i][f] = batch.records[j][f]

\* C5 amended: such records are equal in all those fields except
\* breakdown_sum and breakdown_values, which are read from the primary
\* text's lines, and except invoice_total on a municipal document, where
\* that breakdown sum may replace it
C5_SecondaryAloneButBreakdown ==
    \A i, j \in 1..Len(batch.records) :
        SameSecondary(batch.records[i], batch.records[j])
            => /\ \A f \in ListedFields \ {"breakdown_sum", "breakdown_values",
                                           "invoice_total"} :
                      batch.records[i][f] = batch.records[j][f]
               /\ batch.records[i].municipal # Some(TRUE)
                      => batch.records[i].invoice_total = batch.records[j].invoice_total

\* two such records whose breakdown sums differ with their primary texts
C5_Witness ==
    \E i, j \in 1..Len(batch.records) :
        /\ SameSecondary(batch.records[i], batch.records[j])
        /\ batch.records[i].breakdown_sum = Some(10000)
        /\ batch.records[j].breakdown_sum = Some(9500)
        /\ batch.records[i].invoice_id = Some("secondary-id")
        /\ batch.records[j].invoice_id = Some("secondary-id")

\* C6: no exception of a per-document parse propagates out of
\* generate_report
C6_BatchIsolation == batch.pc # "raised"

\* the place of a column in the header row
ColumnOf(header, name) == CHOOSE k \in 1..Len(header) : header[k] = name

\* C11: in the header row written by write_csv, base_before_vat comes
\* before invoice_vat, and invoice_vat before invoice_total
C11_CsvColumnOrder ==
    batch.pc = "written" =>
        /\ ColumnOf(batch.csv[1], "base_before_vat") < ColumnOf(batch.csv[1], "invoice_vat")
        /\ ColumnOf(batch.csv[1], "invoice_vat") < ColumnOf(batch.csv[1], "invoice_total")

\* ------------------------- specification: compute_parse_confidence
\* the values a field of a record may hold besides None
ConfValues ==
    [ invoice_total |-> {0, 50, 10000},
      invoice_vat |-> {0, 1800},
      breakdown_sum |-> {0, 9900, 10101},
      period_start |-> {"2025-01-01"},
      period_end |-> {"2025-01-31"},
      reference_numbers |-> {<<>>, <<"12345">>},
      category |-> {"utilities"} ]

ConfFields == DOMAIN ConfValues

OptionsOf(f) == {None} \cup {Some(v) : v \in ConfValues[f]}

ConfRecords ==
    { [NewRecord(1) EXCEPT
          !.invoice_total = a, !.invoice_vat = b, !.breakdown_sum = c,
          !.period_start = d, !.period_end = e, !.reference_numbers = g,
          !.category = h] :
        a \in OptionsOf("invoice_total"), b \in OptionsOf("invoice_vat"),
        c \in OptionsOf("breakdown_sum"), d \in OptionsOf("period_start"),
        e \in OptionsOf("period_end"), g \in OptionsOf("reference_numbers"),
        h \in OptionsOf("category") }

ConfInit ==
    /\ fn \in [op : {"confidence"}, given : ConfRecords, record : ConfRecords,
               filled : {None}, result : {None}, refilled : {None}]
    /\ fn.given = fn.record
    /\ num = NumIdle
    /\ sel = SelIdle
    /\ lr = LrIdle
    /\ inv = InvIdle
    /\ batch = BatchIdle

\* compute_parse_confidence(record); the record is only read
ComputeConfidence ==
    /\ fn.op = "confidence"
    /\ IsNone(fn.result)
    /\ fn' = [fn EXCEPT !.result = Some(compute_parse_confidence(fn.record))]
    /\ UNCHANGED <<num, sel, lr, inv, batch>>

\* the same call on the record with one more field present
ComputeConfidenceFilled ==
    /\ fn.op = "confidence"
    /\ ~IsNone(fn.result)
    /\ IsNone(fn.filled)
    /\ \E f \in ConfFields :
         /\ IsNone(fn.record[f])
         /\ \E v \in ConfValues[f] :
              fn' = [fn EXCEPT
                       !.filled = Some(f),
                       !.record = [@ EXCEPT ![f] = Some(v)],
                       !.refilled = Some(compute_parse_confidence(
                                             [fn.record EXCEPT ![f] = Some(v)]))]
    /\ UNCHANGED <<num, sel, lr, inv, batch>>

ConfNext == ComputeConfidence \/ ComputeConfidenceFilled

SpecConf == ConfInit /\ [][ConfNext]_vars

\* the score of the stated formula, where present means non-null
StatedConfidence(record) ==
    LET sum == 40
               + (IF ~IsNone(record.invoice_total) THEN 25 ELSE 0)
               + (IF ~IsNone(record.invoice_vat) THEN 10 ELSE 0)
               + (IF /\ ~IsNone(record.breakdown_sum)
                     /\ ~IsNone(record.invoice_total)
                     /\ Abs(Val(record.breakdown_sum) - Val(record.invoice_total)) <= 100
                  THEN 15 ELSE 0)
               + (IF ~IsNone(record.period_start) \/ ~IsNone(record.period_end)
                  THEN 5 ELSE 0)
               + (IF ~IsNone(record.reference_numbers)
                     /\ Val(record.reference_numbers) # <<>> THEN 5 ELSE 0)
               + (IF ~IsNone(record.category) THEN 5 ELSE 0)
    IN  IF sum < 99 THEN sum ELSE 99

\* C12: compute_parse_confidence returns min(0.99, 0.4 + 0.25[total
\* present] + 0.10[VAT present] + 0.15[breakdown sum and total present and
\* within 1.0] + 0.05[a period boundary present] + 0.05[references
\* non-empty] + 0.05[category present]), present meaning non-null
C12_ConfidenceFormula ==
    (fn.op = "confidence" /\ ~IsNone(fn.result) /\ IsNone(fn.filled))
        => Val(fn.result) = StatedConfidence(fn.record)

\* C13: the score is within [0, 0.99], the call leaves the record as it
\* was, and making one null field non-null never lowers the score
C13_ConfidenceBoundedMonotone ==
    fn.op = "confidence" =>
        /\ ~IsNone(fn.result) => Val(fn.result) \in 0..99
        /\ ~IsNone(fn.refilled) =>
              /\ Val(fn.refilled) \in 0..99
              /\ Val(fn.refilled) >= Val(fn.result)
        /\ IsNone(fn.filled) => fn.record = fn.given

\* a breakdown sum that disagrees with the total is filled in and the
\* score stays where it was
C13_Witness ==
    /\ fn.op = "confidence"
    /\ fn.filled = Some("breakdown_sum")
    /\ fn.record.breakdown_sum = Some(10101)
    /\ fn.record.invoice_total = Some(10000)
    /\ fn.result = Some(65)
    /\ fn.refilled = Some(65)

\* ------------------------------------ specification: classify_invoice
\* vendor keys that the lowered supplier name may contain, and keywords
\* that the lowered text may contain
VendorKeyPool == {"rav-kav", "bzq", "hot", "mym", "google", "visa"}
KeywordPool == {"bus", "internet", "bill", "license", "krtys ashray", "service"}

ClassifyInit ==
    /\ fn \in [op : {"classify"}, text_keys : SUBSET KeywordPool,
               supplier_keys : SUBSET VendorKeyPool, is_municipal : BOOLEAN,
               result : {None}]
    /\ num = NumIdle
    /\ sel = SelIdle
    /\ lr = LrIdle
    /\ inv = InvIdle
    /\ batch = BatchIdle

\* classify_invoice(text, supplier, is_municipal)
Classify ==
    /\ fn.op = "classify"
    /\ IsNone(fn.result)
    /\ fn' = [fn EXCEPT !.result =
                 Some(classify_invoice(fn.text_keys, fn.supplier_keys, fn.is_municipal))]
    /\ UNCHANGED <<num, sel, lr, inv, batch>>

ClassifyNext == Classify

SpecClassify == ClassifyInit /\ [][ClassifyNext]_vars

\* C14: classify_invoice with is_municipal true gives "municipal_tax" at
\* confidence 1.0 whatever keywords and vendor keys are found, and every
\* record of parse_invoice with municipal true has that category and
\* confidence
C14_MunicipalShortCircuit ==
    /\ \A tk \in SUBSET {"bus", "internet"}, sk \in SUBSET {"bzq", "google"} :
           /\ classify_invoice(tk, sk, TRUE).category = Some("municipal_tax")
           /\ classify_invoice(tk, sk, TRUE).confidence = Some(10000)
    /\ (inv.pc = "done" /\ inv.record.municipal = Some(TRUE))
           => /\ inv.record.category = Some("municipal_tax")
              /\ inv.record.category_confidence = Some(10000)

\* a municipal record whose vendor and text would match the
\* communication rule
C14_Witness ==
    /\ inv.pc = "done"
    /\ inv.record.municipal = Some(TRUE)
    /\ "yntrnt" \in inv.text.keywords
    /\ "bzq" \in SupplierKeys(inv.record)
    /\ inv.record.category = Some("municipal_tax")

\* the rule matches on the vendor name, or on the text
VendorMatch(r) ==
    \E k \in 1..Len(CATEGORY_RULES[r].vendor_keys) :
        CATEGORY_RULES[r].vendor_keys[k] \in fn.supplier_keys

KeywordMatch(r) ==
    \E k \in 1..Len(CATEGORY_RULES[r].keyword_hits) :
        CATEGORY_RULES[r].keyword_hits[k] \in fn.text_keys

RuleMatches(r) == VendorMatch(r) \/ KeywordMatch(r)

\* C15: for non-municipal input classify_invoice returns the first rule in
\* declared order with a vendor key in the vendor name or a keyword in the
\* text, at the rule's weight on a vendor match and 0.85 of it on a
\* keyword-only match; with no matching rule all three results are null
C15_ClassifierRuleOrder ==
    (fn.op = "classify" /\ ~IsNone(fn.result) /\ ~fn.is_municipal) =>
        /\ (\A r \in 1..Len(CATEGORY_RULES) : ~RuleMatches(r))
               => Val(fn.result) = [category |-> None, confidence |-> None,
                                    rule |-> None]
        /\ \A r \in 1..Len(CATEGORY_RULES) :
               (RuleMatches(r) /\ \A q \in 1..(r - 1) : ~RuleMatches(q))
                   => /\ Val(fn.result).category = Some(CATEGORY_RULES[r].category)
                      /\ Val(fn.result).confidence =
                             Some(IF VendorMatch(r) THEN CATEGORY_RULES[r].weight
                                  ELSE (85 * CATEGORY_RULES[r].weight) \div 100)
                      /\ Val(fn.result).rule # None

\* a keyword of the second rule wins over a vendor key of the fourth
C15_Witness ==
    /\ fn.op = "classify"
    /\ ~fn.is_municipal
    /\ fn.text_keys = {"internet"}
    /\ fn.supplier_keys = {"google"}
    /\ fn.result = Some([category |-> Some("communication"),
                         confidence |-> Some(8500),
                         rule |-> Some(<<"keyword", "internet">>)])

\* --------------------------- specification: parse_invoices (the splitter)
\* The splitter is described by the specification text only (section 4.8
\* and the tests of parse_invoices); a page is what positional extraction
\* recovers from it: a unit identifier and a total due, each possibly
\* missing.
MaxPages == 3

UnitIds == {"10200570020", "10200570021"}
PageTotals == {596880, 31560}
Pages == [id : {None} \cup {Some(u) : u \in UnitIds},
          total : {None} \cup {Some(a) : a \in PageTotals}]

\* positional extraction recovered the unit of the page
PageResolved(page) == ~IsNone(page.id) /\ ~IsNone(page.total)

\* mutant: two pages of one unit do not stop the split
UnitsDistinct_Unchecked(pages) == TRUE

\* no two pages resolve to the same unit identifier
UnitsDistinct(pages) ==
    \A i, j \in 1..Len(pages) : i # j => pages[i].id # pages[j].id

\* the split is unambiguous: a municipal document of at least two pages,
\* every page resolved, all unit identifiers distinct
SplitIsSafe(base, pages) ==
    /\ base.municipal = Some(TRUE)
    /\ Len(pages) >= 2
    /\ \A i \in 1..Len(pages) : PageResolved(pages[i])
    /\ UnitsDistinct(pages)

\* the record of one unit: the parent's fields with the unit's own
\* identifier and total
UnitRecord(base, page) ==
    [base EXCEPT !.invoice_id = page.id,
                 !.invoice_total = page.total,
                 !.data_source = Some("pymupdf")]

\* parse_invoices(path): the aggregate record of parse_invoice, replaced by
\* one record per unit when the split is safe
parse_invoices(base, pages) ==
    IF SplitIsSafe(base, pages)
    THEN [i \in 1..Len(pages) |-> UnitRecord(base, pages[i])]
    ELSE <<base>>

SplitBases ==
    {[NewRecord(1) EXCEPT !.municipal = Some(m),
                          !.invoice_total = Some(99900),
                          !.invoice_from = Some(VendorCity)] : m \in BOOLEAN}

SplitInit ==
    /\ fn \in [op : {"split"}, base : SplitBases,
               pages : SeqsUpTo(Pages, MaxPages), result : {None}]
    /\ num = NumIdle
    /\ sel = SelIdle
    /\ lr = LrIdle
    /\ inv = InvIdle
    /\ batch = BatchIdle

ParseInvoices ==
    /\ fn.op = "split"
    /\ IsNone(fn.result)
    /\ fn' = [fn EXCEPT !.result = Some(parse_invoices(fn.base, fn.pages))]
    /\ UNCHANGED <<num, sel, lr, inv, batch>>

SplitNext == ParseInvoices

SpecSplit == SplitInit /\ [][SplitNext]_vars

\* two pages resolve to the same unit identifier
DuplicateUnits(pages) ==
    \E i, j \in 1..Len(pages) :
        i # j /\ ~IsNone(pages[i].id) /\ pages[i].id = pages[j].id

\* C16: when two pages of a municipal document resolve to the same unit
\* identifier, parse_invoices returns exactly the aggregate record of
\* parse_invoice, and no result holds two records with one invoice_id
C16_SplitSafety ==
    (fn.op = "split" /\ ~IsNone(fn.result)) =>
        /\ (fn.base.municipal = Some(TRUE) /\ DuplicateUnits(fn.pages))
               => Val(fn.result) = <<fn.base>>
        /\ \A i, j \in 1..Len(Val(fn.result)) :
               i # j => Val(fn.result)[i].invoice_id # Val(fn.result)[j].invoice_id

\* the two pages of the test: one unit identifier, two totals
C16_Witness ==
    /\ fn.op = "split"
    /\ fn.base.municipal = Some(TRUE)
    /\ fn.pages = << [id |-> Some("10200570020"), total |-> Some(596880)],
                     [id |-> Some("10200570020"), total |-> Some(31560)] >>
    /\ fn.result = Some(<<fn.base>>)

\* --------------------------- specification: extract_reference_numbers
MaxMatches == 3

\* what the capture groups of the three patterns can match: four or more
\* characters of [A-Z0-9-] for the first and third, of [0-9-] for the second
PurchaseOrderRefs == { <<"P", "O", "-", "1">>, <<"A", "-", "7", "7">>,
                       <<"1", "2", "3", "4", "5">> }
CustomerNumberRefs == { <<"1", "2", "3", "4", "5">>, <<"6", "7", "8", "9">> }
AccountRefs == { <<"A", "C", "C", "-", "9">>, <<"5", "5", "5", "0">>,
                 <<"P", "O", "-", "1">> }

RefsInit ==
    /\ fn \in [op : {"refs"},
               first : SeqsUpTo(PurchaseOrderRefs, MaxMatches),
               second : SeqsUpTo(CustomerNumberRefs, MaxMatches),
               third : SeqsUpTo(AccountRefs, MaxMatches),
               result : {None}]
    /\ num = NumIdle
    /\ sel = SelIdle
    /\ lr = LrIdle
    /\ inv = InvIdle
    /\ batch = BatchIdle

\* the matches in the order lines 382-384 collect them
RefsOf(f) == f.first \o f.second \o f.third

ExtractReferences ==
    /\ fn.op = "refs"
    /\ IsNone(fn.result)
    /\ fn' = [fn EXCEPT !.result =
                 Some(extract_reference_numbers(
                          [EmptyText EXCEPT !.refs = RefsOf(fn)]))]
    /\ UNCHANGED <<num, sel, lr, inv, batch>>

RefsNext == ExtractReferences

SpecRefs == RefsInit /\ [][RefsNext]_vars

\* the place where a reference is first seen among the matches
FirstSeen(refs, key) == CHOOSE i \in 1..Len(refs) :
                            refs[i] = key /\ \A j \in 1..(i - 1) : refs[j] # key

\* C17: extract_reference_numbers returns at most 5 entries, none empty,
\* no two equal, each one of the matches, in the order in which the
\* matches were first seen (first pattern's matches, then the second's,
\* then the third's)
C17_ReferenceNumbers ==
    (fn.op = "refs" /\ ~IsNone(fn.result)) =>
        /\ Len(Val(fn.result)) <= 5
        /\ \A i \in 1..Len(Val(fn.result)) :
               /\ Val(fn.result)[i] # <<>>
               /\ \E k \in 1..Len(RefsOf(fn)) : RefsOf(fn)[k] = Val(fn.result)[i]
        /\ \A i, j \in 1..Len(Val(fn.result)) :
               i < j => /\ Val(fn.result)[i] # Val(fn.result)[j]
                        /\ FirstSeen(RefsOf(fn), Val(fn.result)[i])
                               < FirstSeen(RefsOf(fn), Val(fn.result)[j])

\* six different references with repetitions: five are returned
C17_Witness ==
    /\ fn.op = "refs"
    /\ ~IsNone(fn.result)
    /\ Cardinality({RefsOf(fn)[k] : k \in 1..Len(RefsOf(fn))}) = 6
    /\ Len(RefsOf(fn)) > 6
    /\ Len(Val(fn.result)) = 5

\* ------------------------------------------------- stored date strings
\* a string of the form YYYY-MM-DD
IsIsoForm(s) ==
    /\ Len(s) = 10
    /\ s[5] = "-"
    /\ s[8] = "-"
    /\ \A i \in {1, 2, 3, 4, 6, 7, 9, 10} : IsDigit(s[i])

\* C18: when parse_invoice sets invoice_date or due_date from a token that
\* normalize_date_token accepts, the stored value has the form YYYY-MM-DD
C18_DatesNormalized ==
    inv.pc = "done" =>
        /\ ( /\ ~IsNone(inv.text.invoice_date)
             /\ ~IsNone(inv.record.invoice_date)
             /\ ~IsNone(normalize_date_token(Val(inv.text.invoice_date)).value) )
               => IsIsoForm(Val(inv.record.invoice_date))
        /\ ~IsNone(inv.record.due_date) => IsIsoForm(Val(inv.record.due_date))

\* ---------------------------- specification: extract_text_with_pymupdf
\* The secondary extractor at the level of pages: a page is what
\* page.get_text("text") does on it, returning its text or raising.
PageReads == { [ok |-> TRUE, text |-> <<"a">>], [ok |-> TRUE, text |-> <<"b", "c">>],
               [ok |-> TRUE, text |-> <<>>], [ok |-> FALSE, text |-> <<>>] }

PageRead(page) == page.ok

\* mutant: the first page that fails ends the loop
PageParts_StopAtFailure(pages) ==
    [i \in 1..(IF \E k \in 1..Len(pages) : ~pages[k].ok
               THEN (CHOOSE k \in 1..Len(pages) :
                         ~pages[k].ok /\ \A j \in 1..(k - 1) : pages[j].ok) - 1
               ELSE Len(pages)) |-> pages[i].text]

\* lines 568-574: parts after the loop over the pages
PageParts(pages) ==
    [i \in 1..Len(SelectSeq(pages, PageRead)) |-> SelectSeq(pages, PageRead)[i].text]

\* lines 561-577: the returned string, and whether an exception leaves
\* the function
JoinedPageText(have_pymupdf, opens, pages) ==
    IF ~have_pymupdf THEN [raises |-> FALSE, value |-> <<>>]
    ELSE IF ~opens THEN [raises |-> FALSE, value |-> <<>>]
    ELSE [raises |-> FALSE, value |-> JoinLines(PageParts(pages))]

PagesInit ==
    /\ fn \in [op : {"pages"}, have_pymupdf : BOOLEAN, opens : BOOLEAN,
               pages : SeqsUpTo(PageReads, MaxPages), result : {None}]
    /\ num = NumIdle
    /\ sel = SelIdle
    /\ lr = LrIdle
    /\ inv = InvIdle
    /\ batch = BatchIdle

ExtractPages ==
    /\ fn.op = "pages"
    /\ IsNone(fn.result)
    /\ fn' = [fn EXCEPT !.result =
                 Some(JoinedPageText(fn.have_pymupdf, fn.opens, fn.pages))]
    /\ UNCHANGED <<num, sel, lr, inv, batch>>

PagesNext == ExtractPages

SpecPages == PagesInit /\ [][PagesNext]_vars

\* the texts of the pages that were read, in page order
RECURSIVE ReadTexts(_)
ReadTexts(pages) ==
    IF pages = <<>> THEN <<>>
    ELSE IF Head(pages).ok THEN <<Head(pages).text>> \o ReadTexts(Tail(pages))
    ELSE ReadTexts(Tail(pages))

\* C19: with PyMuPDF present and the document open, the result of
\* extract_text_with_pymupdf is the texts of all pages whose read succeeded,
\* in page order, whatever pages failed; when the document cannot be
\* opened the result is the empty string; no exception leaves the function
C19_PageFailureIsolated ==
    (fn.op = "pages" /\ ~IsNone(fn.result)) =>
        /\ ~Val(fn.result).raises
        /\ (fn.have_pymupdf /\ fn.opens)
               => /\ Val(fn.result).value = JoinLines(ReadTexts(fn.pages))
                  /\ \/ ReadTexts(fn.pages) = <<>>
                     \/ SplitOn(Val(fn.result).value, "\n") = ReadTexts(fn.pages)
        /\ ~fn.opens => Val(fn.result).value = <<>>

\* a page fails between two pages that are read
C19_Witness ==
    /\ fn.op = "pages"
    /\ fn.have_pymupdf
    /\ fn.opens
    /\ fn.pages = << [ok |-> TRUE, text |-> <<"a">>], [ok |-> FALSE, text |-> <<>>],
                     [ok |-> TRUE, text |-> <<"b", "c">>] >>
    /\ fn.result = Some([raises |-> FALSE, value |-> <<"a", "\n", "b", "c">>])

\* ------------------------------------------- properties: selected_files
\* the source_file of each record, and the names of the files that exist
SourceFiles(records) == [i \in 1..Len(records) |-> records[i].source_file]
ExistingNames(docs) == [i \in 1..Len(Existing(docs)) |-> Existing(docs)[i].name]

\* C20: generate_report called with a list of selected file names raises no
\* exception and returns the records of the named files that exist, in the
\* order of the names, with no record for a name whose file is missing
C20_SelectedSubset ==
    ~IsNone(batch.selected_files) =>
        /\ batch.pc # "raised"
        /\ Len(batch.records) <= Len(ExistingNames(Val(batch.selected_files)))
        /\ batch.pc \in {"returned", "written"}
               => SourceFiles(batch.records) = ExistingNames(Val(batch.selected_files))

\* ------------------------------------ properties: the extraction cache
\* C21: within one parse_invoice call extract_text_with_pymupdf is invoked
\* at most once, whichever of the quality, vendor and description
\* fallbacks ask for the secondary text, also when the first result was
\* empty
C21_SecondaryExtractedOnce == inv.pymupdf_calls <= 1

\* ------------------------------------------- properties: infer_totals
\* the total of the tiers that come before the collect block (lines
\* 1097-1175), and the text with nothing for those tiers to find
EarlierTotal(t) == YigbeTailTotal(t, YigbeBlockTotal(t, t.label_total))
WithoutEarlierTiers(t) ==
    [t EXCEPT !.label_total = None, !.yigbe_block = None, !.yigbe_tail = None]

\* infer_totals has returned for the text inv.text
TotalsInferred == inv.pc \in {"totals", "done"} /\ ~IsNone(inv.totals)

\* the later tiers leave a total alone: it is above 5 and the document is
\* not municipal
PlainTotal(t, amount) == amount > 500 /\ ~IsMunicipalText(t)

\* C22 as stated: a collect-block maximum that is not greater than the
\* total of an earlier tier leaves that total unchanged
C22_BlockOverridesOnlyWhenGreater ==
    ( /\ TotalsInferred
      /\ ~IsNone(EarlierTotal(inv.text))
      /\ BestTotalBlock(inv.text) # <<>>
      /\ SeqMax(BestTotalBlock(inv.text)) <= Val(EarlierTotal(inv.text))
      /\ PlainTotal(inv.text, Val(EarlierTotal(inv.text))) )
        => Val(inv.totals).invoice_total = EarlierTotal(inv.text)

\* C22, amended: a non-empty collect block with a positive maximum replaces
\* the total of the earlier tiers whether it is greater, equal or smaller:
\* the returned total is the one the text gives with nothing for the
\* earlier tiers to find, and it is the block maximum when that is above 5
\* and the document is not municipal
C22_BlockAlwaysOverrides ==
    ( /\ TotalsInferred
      /\ BestTotalBlock(inv.text) # <<>>
      /\ SeqMax(BestTotalBlock(inv.text)) > 0 )
        => /\ Val(inv.totals).invoice_total =
                  infer_totals(WithoutEarlierTiers(inv.text),
                               inv.text_pdfminer.lines).invoice_total
           /\ PlainTotal(inv.text, SeqMax(BestTotalBlock(inv.text)))
                  => Val(inv.totals).invoice_total =
                         Some(SeqMax(BestTotalBlock(inv.text)))

\* a labelled total of 100.00 replaced by a block maximum of 90.00
C22_Witness ==
    /\ TotalsInferred
    /\ inv.text.label_total = Some(10000)
    /\ inv.text.total_block = <<9000>>
    /\ Val(inv.totals).invoice_total = Some(9000)

\* C23: whenever infer_totals returns both invoice_total and invoice_vat
\* non-null, invoice_vat <= invoice_total
C23_VatAtMostTotal ==
    ( /\ TotalsInferred
      /\ ~IsNone(Val(inv.totals).invoice_total)
      /\ ~IsNone(Val(inv.totals).invoice_vat) )
        => Val(Val(inv.totals).invoice_vat) <= Val(Val(inv.totals).invoice_total)

\* the total before the municipal step, and the sum of the amount block
PreviousTotal == InferTotal(inv.text)
AmountBlockSum == Val(inv.totals).breakdown_sum

\* the previously inferred total is absent, below 50, or more than 1.0
\* away from the block sum
BlockSumWins ==
    \/ IsNone(PreviousTotal)
    \/ Val(PreviousTotal) < 5000
    \/ Val(PreviousTotal) - Val(AmountBlockSum) > 100
    \/ Val(AmountBlockSum) - Val(PreviousTotal) > 100

\* C24: for a municipal document whose amount block yields a sum,
\* infer_totals returns the block sum as invoice_total when the previously
\* inferred total is absent, below 50 or more than 1.0 away from the block
\* sum, and the previously inferred total otherwise; for a non-municipal
\* document it returns the previously inferred total
C24_MunicipalTotalOverride ==
    TotalsInferred =>
        /\ (Val(inv.totals).municipal /\ ~IsNone(AmountBlockSum))
               => Val(inv.totals).invoice_total =
                      (IF BlockSumWins THEN AmountBlockSum ELSE PreviousTotal)
        /\ ~Val(inv.totals).municipal
               => Val(inv.totals).invoice_total = PreviousTotal

\* a municipal total of 100.00 replaced by a block sum of 95.00
C24_Witness ==
    /\ TotalsInferred
    /\ Val(inv.totals).municipal
    /\ PreviousTotal = Some(10000)
    /\ AmountBlockSum = Some(9500)
    /\ Val(inv.totals).invoice_total = Some(9500)

\* --------------------------- specification: find_amount_before_marker
\* A line is what the function looks at: whether it contains the marker,
\* a percent sign, a slash without the currency sign, and the numeric
\* tokens of numeric_candidates with their percent flags.
MaxLines == 5

Tok(chars, is_percent) == [tok |-> chars, is_percent |-> is_percent]

MarkerLineKinds ==
    { [marker |-> FALSE, percent |-> FALSE, dated |-> FALSE, candidates |-> <<>>],
      [marker |-> FALSE, percent |-> FALSE, dated |-> FALSE,
       candidates |-> <<Tok(<<"2", "5", "0", ".", "0", "0">>, FALSE)>>],
      [marker |-> FALSE, percent |-> TRUE, dated |-> FALSE,
       candidates |-> <<Tok(<<"1", "7">>, TRUE),
                        Tok(<<"2", "0", "0", ".", "0", "0">>, FALSE)>>],
      [marker |-> FALSE, percent |-> FALSE, dated |-> TRUE,
       candidates |-> <<Tok(<<"1", "2">>, FALSE), Tok(<<"0", "5">>, FALSE),
                        Tok(<<"3", "0", "0", ".", "0", "0">>, FALSE)>>],
      [marker |-> TRUE, percent |-> TRUE, dated |-> FALSE,
       candidates |-> <<Tok(<<"1", "7">>, TRUE)>>],
      [marker |-> TRUE, percent |-> FALSE, dated |-> FALSE,
       candidates |-> <<Tok(<<"1", "1", "8", ".", "0", "0">>, FALSE)>>] }

\* lines 967-968, 979-987: the tokens that are not percentages, or all
\* tokens when every one is
LineTokens(line) ==
    IF SelectSeq(line.candidates, LAMBDA c : ~c.is_percent) # <<>>
    THEN [k \in 1..Len(SelectSeq(line.candidates, LAMBDA c : ~c.is_percent)) |->
              SelectSeq(line.candidates, LAMBDA c : ~c.is_percent)[k].tok]
    ELSE [k \in 1..Len(line.candidates) |-> line.candidates[k].tok]

\* select_amount(tokens[::-1]) if tokens else None
LineAmount(line) ==
    IF LineTokens(line) = <<>> THEN None
    ELSE select_amount_agorot(Reverse(LineTokens(line)))

\* a line with the amount the function reads from it when it looks at it
ScanLine(line) ==
    [marker |-> line.marker, percent |-> line.percent, dated |-> line.dated,
     amount |-> LineAmount(line)]

\* the lines of the inputs, each scanned once
MarkerRows == {ScanLine(line) : line \in MarkerLineKinds}

\* lines 965-971: the inline amount of a marker line
InlineAmount(row) == IF row.percent THEN None ELSE row.amount

\* lines 977-978: a preceding line with "/" and no currency sign is passed
\* over
BackAmount(row) == IF row.dated THEN None ELSE row.amount

\* lines 991-1006: a following line
AheadAmount(row) == row.amount

\* lines 975-990: the nearest of the three preceding lines with an amount
LookBack(lines, idx) ==
    IF \E k \in 1..3 : idx - k >= 1 /\ ~IsNone(BackAmount(lines[idx - k]))
    THEN BackAmount(lines[idx - CHOOSE k \in 1..3 :
                              /\ idx - k >= 1
                              /\ ~IsNone(BackAmount(lines[idx - k]))
                              /\ \A j \in 1..(k - 1) :
                                     IsNone(BackAmount(lines[idx - j]))])
    ELSE None

\* lines 991-1006: the nearest of the three following lines with an amount
LookAhead(lines, idx) ==
    IF \E k \in 1..3 : idx + k <= Len(lines) /\ ~IsNone(AheadAmount(lines[idx + k]))
    THEN AheadAmount(lines[idx + CHOOSE k \in 1..3 :
                              /\ idx + k <= Len(lines)
                              /\ ~IsNone(AheadAmount(lines[idx + k]))
                              /\ \A j \in 1..(k - 1) :
                                     IsNone(AheadAmount(lines[idx + j]))])
    ELSE None

\* mutant: the following lines are searched before the preceding ones
NearbyAmount_AheadFirst(lines, idx) ==
    IF ~IsNone(LookAhead(lines, idx)) THEN LookAhead(lines, idx)
    ELSE LookBack(lines, idx)

\* lines 975-1007: look-back, then look-ahead
NearbyAmount(lines, idx) ==
    IF ~IsNone(LookBack(lines, idx)) THEN LookBack(lines, idx)
    ELSE LookAhead(lines, idx)

\* the marker lines, in order
MarkerIndexes(lines) == {i \in 1..Len(lines) : lines[i].marker}
FirstOf(S) == CHOOSE i \in S : \A j \in S : i <= j

\* find_amount_before_marker(lines, marker, prefer_inline=...) over scanned
\* lines
find_amount_before_marker(lines, prefer_inline) ==
    IF prefer_inline
    THEN \* every marker line is tried for an inline amount (line 974)
         IF \E i \in MarkerIndexes(lines) : ~IsNone(InlineAmount(lines[i]))
         THEN InlineAmount(lines[FirstOf({i \in MarkerIndexes(lines) :
                                              ~IsNone(InlineAmount(lines[i]))})])
         ELSE None
    ELSE \* only the first marker line is used (the break of line 1007)
         IF MarkerIndexes(lines) = {} THEN None
         ELSE IF ~IsNone(InlineAmount(lines[FirstOf(MarkerIndexes(lines))]))
         THEN InlineAmount(lines[FirstOf(MarkerIndexes(lines))])
         ELSE NearbyAmount(lines, FirstOf(MarkerIndexes(lines)))

MarkerInit ==
    /\ fn \in [op : {"marker"}, lines : SeqsUpTo(MarkerRows, MaxLines),
               prefer_inline : BOOLEAN, result : {None}]
    /\ num = NumIdle
    /\ sel = SelIdle
    /\ lr = LrIdle
    /\ inv = InvIdle
    /\ batch = BatchIdle

FindAmountBeforeMarker ==
    /\ fn.op = "marker"
    /\ IsNone(fn.result)
    /\ fn' = [fn EXCEPT !.result =
                 Some(find_amount_before_marker(fn.lines, fn.prefer_inline))]
    /\ UNCHANGED <<num, sel, lr, inv, batch>>

MarkerNext == FindAmountBeforeMarker

SpecMarker == MarkerInit /\ [][MarkerNext]_vars

\* the amount read from a line; the first marker line of the input; and
\* whether the line k places before or after it yields an amount
RowAmount(row) == row.amount
MarkerAt == FirstOf(MarkerIndexes(fn.lines))
YieldsBack(k) ==
    /\ MarkerAt - k >= 1
    /\ ~fn.lines[MarkerAt - k].dated
    /\ ~IsNone(RowAmount(fn.lines[MarkerAt - k]))
YieldsAhead(k) ==
    /\ MarkerAt + k <= Len(fn.lines)
    /\ ~IsNone(RowAmount(fn.lines[MarkerAt + k]))

\* C25: with prefer_inline false and a percent sign on the first marker
\* line, the result is the amount of the nearest of the 3 preceding lines
\* that yields one, else of the nearest of the 3 following lines that yields
\* one, else null, and never an amount of the marker line; with
\* prefer_inline true the result is an inline amount of a marker line, and
\* null when no marker line yields one
C25_LabelSearchOrder ==
    (fn.op = "marker" /\ ~IsNone(fn.result)) =>
        /\ ( /\ ~fn.prefer_inline
             /\ MarkerIndexes(fn.lines) # {}
             /\ fn.lines[MarkerAt].percent )
               => /\ \A k \in 1..3 :
                         (YieldsBack(k) /\ \A j \in 1..(k - 1) : ~YieldsBack(j))
                             => Val(fn.result) = RowAmount(fn.lines[MarkerAt - k])
                  /\ \A k \in 1..3 :
                         ( /\ \A j \in 1..3 : ~YieldsBack(j)
                           /\ YieldsAhead(k)
                           /\ \A j \in 1..(k - 1) : ~YieldsAhead(j) )
                             => Val(fn.result) = RowAmount(fn.lines[MarkerAt + k])
                  /\ (\A j \in 1..3 : ~YieldsBack(j) /\ ~YieldsAhead(j))
                         => Val(fn.result) = None
        /\ fn.prefer_inline
               => /\ \/ Val(fn.result) = None
                     \/ \E i \in MarkerIndexes(fn.lines) :
                            /\ ~fn.lines[i].percent
                            /\ Val(fn.result) = RowAmount(fn.lines[i])
                  /\ (\A i \in MarkerIndexes(fn.lines) :
                          fn.lines[i].percent \/ IsNone(RowAmount(fn.lines[i])))
                         => Val(fn.result) = None

\* the lines of the test: 250.00 before the marker line with "17%",
\* 200.00 after it
C25_Witness ==
    /\ fn.op = "marker"
    /\ ~fn.prefer_inline
    /\ Len(fn.lines) = 3
    /\ RowAmount(fn.lines[1]) = Some(25000)
    /\ fn.lines[2].marker /\ fn.lines[2].percent
    /\ RowAmount(fn.lines[3]) = Some(20000)
    /\ fn.result = Some(Some(25000))

\* ----------------------------------- specification: infer_invoice_id
\* A text is modelled by what the searches of infer_invoice_id find in it:
\* the token captured by the periodic-account pattern (special) and by the
\* period-proximity pattern (period), the matches of pattern_defs with
\* their priorities (labelled, in the order of lines 692-694), and its
\* lines; a line is whether it holds the marker of line 698 and its runs,
\* the space-separated pieces that start with a digit and hold digits, "/"
\* and "-" only. The lines modelled follow `lead` lines without digit or
\* marker.
MaxIdLines == 3
MaxLabelled == 2
FirstLines == 60
MinIdDigits == 8
MaxIdDigits == 12

IdCandidate(priority, value) == [priority |-> priority, value |-> value]

\* re.sub(r"\D", "", token), lines 663, 672 and 680
HasDigit(token) == ~IsNone(token) /\ DigitsOnly(Val(token)) # <<>>

\* add_candidate(value, priority) for each item in turn (lines 676-681)
RECURSIVE AddCandidates(_, _)
AddCandidates(candidates, items) ==
    IF items = <<>> THEN candidates
    ELSE AddCandidates(
             IF Head(items).value = <<>> THEN candidates
             ELSE Append(candidates,
                         IdCandidate(Head(items).priority,
                                     IF DigitsOnly(Head(items).value) # <<>>
                                     THEN DigitsOnly(Head(items).value)
                                     ELSE Head(items).value)),
             Tail(items))

AtPriority(values, priority) ==
    [i \in 1..Len(values) |-> IdCandidate(priority, values[i])]

\* lines 697-708: the first marker line that has digits, or that is not the
\* first line of the text, ends the scan; i is the line's place among the
\* modelled lines, lead + i - 1 its index in the text
RECURSIVE MarkerLineValues(_, _, _)
MarkerLineValues(lines, lead, i) ==
    IF i > Len(lines) THEN <<>>
    ELSE IF ~lines[i].marker THEN MarkerLineValues(lines, lead, i + 1)
    ELSE IF lines[i].runs # <<>> THEN lines[i].runs
    ELSE IF lead + i - 1 > 0
         THEN (IF i > 1 THEN lines[i - 1].runs ELSE <<>>)
    ELSE MarkerLineValues(lines, lead, i + 1)

\* the maximal runs of digits of a piece
RECURSIVE DigitRunsOf(_, _)
DigitRunsOf(s, cur) ==
    IF s = <<>> THEN (IF cur = <<>> THEN <<>> ELSE <<cur>>)
    ELSE IF IsDigit(Head(s)) THEN DigitRunsOf(Tail(s), Append(cur, Head(s)))
    ELSE (IF cur = <<>> THEN <<>> ELSE <<cur>>) \o DigitRunsOf(Tail(s), <<>>)

\* re.findall(r"\b\d{8,12}\b", line), lines 711 and 714
IsIdToken(run) == Len(run) >= MinIdDigits /\ Len(run) <= MaxIdDigits
RECURSIVE RunTokens(_)
RunTokens(runs) ==
    IF runs = <<>> THEN <<>>
    ELSE SelectSeq(DigitRunsOf(Head(runs), <<>>), IsIdToken)
             \o RunTokens(Tail(runs))
RECURSIVE LineTokensOf(_)
LineTokensOf(lines) ==
    IF lines = <<>> THEN <<>>
    ELSE RunTokens(Head(lines).runs) \o LineTokensOf(Tail(lines))

\* lines[:60], line 710
HeadLines_All(lines, lead) == lines
HeadLines(lines, lead) ==
    IF lead >= FirstLines THEN <<>>
    ELSE SubSeq(lines, 1, IF Len(lines) <= FirstLines - lead
                          THEN Len(lines) ELSE FirstLines - lead)

\* the tiers of lines 692-715, each entered with the candidates so far
LabelledTier(f) == AddCandidates(<<>>, f.labelled)
MarkerLineTier(candidates, f) ==
    IF candidates # <<>> THEN candidates
    ELSE AddCandidates(<<>>, AtPriority(MarkerLineValues(f.lines, f.lead, 1), 3))
FirstLinesTier(candidates, f) ==
    IF candidates # <<>> THEN candidates
    ELSE AddCandidates(<<>>,
             AtPriority(LineTokensOf(HeadLines(f.lines, f.lead)), 5))
WholeTextTier(candidates, f) ==
    IF candidates # <<>> THEN candidates
    ELSE AddCandidates(<<>>, AtPriority(LineTokensOf(f.lines), 6))
CollectCandidates(f) ==
    WholeTextTier(FirstLinesTier(MarkerLineTier(LabelledTier(f), f), f), f)

\* a < b for strings of digits, as Python compares str
RECURSIVE StrLess(_, _)
StrLess(a, b) ==
    IF b = <<>> THEN FALSE
    ELSE IF a = <<>> THEN TRUE
    ELSE IF Head(a) # Head(b) THEN DigitVal(Head(a)) < DigitVal(Head(b))
    ELSE StrLess(Tail(a), Tail(b))

\* the key of line 718: (item[0], -len(item[1]), item[1])
SortKeyLess_NoLength(a, b) ==
    \/ a.priority < b.priority
    \/ a.priority = b.priority /\ StrLess(a.value, b.value)
SortKeyLess(a, b) ==
    \/ a.priority < b.priority
    \/ a.priority = b.priority /\ Len(a.value) > Len(b.value)
    \/ a.priority = b.priority /\ Len(a.value) = Len(b.value)
                               /\ StrLess(a.value, b.value)

\* candidates[0] after the stable sort of line 718
FirstSorted(candidates) ==
    candidates[CHOOSE i \in 1..Len(candidates) :
                   /\ \A j \in 1..Len(candidates) :
                          ~SortKeyLess(candidates[j], candidates[i])
                   /\ \A j \in 1..(i - 1) :
                          SortKeyLess(candidates[i], candidates[j])]

\* lines 656-674: the early returns
EarlyId(f) ==
    IF HasDigit(f.special) THEN Some(DigitsOnly(Val(f.special)))
    ELSE IF HasDigit(f.period) THEN Some(DigitsOnly(Val(f.period)))
    ELSE None

\* lines 717-720
SortedId(candidates) ==
    IF candidates = <<>> THEN None ELSE Some(FirstSorted(candidates).value)

\* infer_invoice_id(lines, text), with the candidates it collected
InvoiceIdOutcome(f, candidates) ==
    [f EXCEPT !.candidates = candidates,
              !.result = Some(SortedId(candidates))]
InferInvoiceIdOf(f) ==
    IF ~IsNone(EarlyId(f)) THEN [f EXCEPT !.result = Some(EarlyId(f))]
    ELSE InvoiceIdOutcome(f, CollectCandidates(f))

D4 == <<"4", "3", "2", "1">>
D8a == <<"1", "2", "3", "4", "5", "6", "7", "8">>
D8b == <<"8", "7", "6", "5", "4", "3", "2", "1">>
D12 == <<"1", "2", "3", "4", "5", "6", "7", "8", "9", "0", "1", "2">>
D13 == <<"1", "2", "3", "4", "5", "6", "7", "8", "9", "0", "1", "2", "3">>
DDate == <<"1", "2", "/", "0", "5", "/", "2", "0", "2", "4">>

IdLineKinds ==
    { [marker |-> FALSE, runs |-> <<>>],
      [marker |-> TRUE, runs |-> <<>>],
      [marker |-> TRUE, runs |-> <<D4>>],
      [marker |-> FALSE, runs |-> <<D8a, D12>>],
      [marker |-> FALSE, runs |-> <<D8b, D13>>],
      [marker |-> FALSE, runs |-> <<DDate>>] }

LabelledMatches ==
    { IdCandidate(0, <<"1", "2", "3", "4">>),
      IdCandidate(0, <<"0", "9", "9", "9">>),
      IdCandidate(0, <<"1", "2", "3", "4", "5">>),
      IdCandidate(2, <<"1", "2", "3", "4", "5", "6">>) }

SpecialTokens ==
    { None, Some(<<"-", "-", "-", "-", "-", "-">>),
      Some(<<"1", "2", "-", "3", "4", "5", "-", "6">>) }
PeriodTokens == { None, Some(<<"6", "5", "4", "3", "2", "1">>) }
LeadingLines == {0, FirstLines - 2}

IdInit ==
    /\ fn \in [op : {"id"}, special : SpecialTokens, period : PeriodTokens,
               labelled : SeqsUpTo(LabelledMatches, MaxLabelled),
               lead : LeadingLines,
               lines : SeqsUpTo(IdLineKinds, MaxIdLines),
               candidates : {<<>>}, result : {None}]
    /\ num = NumIdle
    /\ sel = SelIdle
    /\ lr = LrIdle
    /\ inv = InvIdle
    /\ batch = BatchIdle

InferInvoiceId ==
    /\ fn.op = "id"
    /\ IsNone(fn.result)
    /\ fn' = InferInvoiceIdOf(fn)
    /\ UNCHANGED <<num, sel, lr, inv, batch>>

IdNext == InferInvoiceId

SpecId == IdInit /\ [][IdNext]_vars

\* the id returned, the candidates it was drawn from, and the tokens of 8
\* to 12 digits on the first 60 lines and on all lines
IdReturned == fn.op = "id" /\ ~IsNone(fn.result)
Collected == {fn.candidates[i] : i \in 1..Len(fn.candidates)}
Preferred(c, d) ==
    /\ c.priority <= d.priority
    /\ c.priority = d.priority => Len(c.value) >= Len(d.value)
    /\ (c.priority = d.priority /\ Len(c.value) = Len(d.value))
           => (c.value = d.value \/ StrLess(c.value, d.value))
WinnerReturned ==
    IF Collected = {} THEN Val(fn.result) = None
    ELSE \E c \in Collected :
             /\ Val(fn.result) = Some(c.value)
             /\ \A d \in Collected : Preferred(c, d)
TokensUpTo(last) ==
    UNION { {RunTokens(fn.lines[i].runs)[k] :
                 k \in 1..Len(RunTokens(fn.lines[i].runs))} :
            i \in {j \in 1..Len(fn.lines) : fn.lead + j <= last} }
MarkerLineYield ==
    AddCandidates(<<>>, AtPriority(MarkerLineValues(fn.lines, fn.lead, 1), 3))
FallbackOnlyWhenEmpty ==
    \A c \in Collected :
        /\ c.priority >= 3 => fn.labelled = <<>>
        /\ c.priority >= 5 => MarkerLineYield = <<>>
        /\ c.priority >= 6 => TokensUpTo(FirstLines) = {}

\* C26 as stated: the winner rule whenever neither marker pattern matches,
\* and every periodic-account match returned at once
C26_EveryMarkerMatchReturned ==
    IdReturned =>
        /\ (IsNone(fn.special) /\ IsNone(fn.period)) => WinnerReturned
        /\ ~IsNone(fn.special)
               => /\ Val(fn.result) = Some(DigitsOnly(Val(fn.special)))
                  /\ fn.candidates = <<>>
        /\ FallbackOnlyWhenEmpty

\* C26: when neither marker pattern captured a digit, the id returned is a
\* collected candidate of the lowest tier, among those of the greatest
\* length, among those the lexicographically smallest; a periodic-account
\* match that holds a digit is returned as its digits before any candidate
\* is collected, one that holds none is passed over; tiers 3, 5 and 6 add
\* candidates only when every earlier tier added none
C26_InvoiceIdWinner ==
    IdReturned =>
        /\ (~HasDigit(fn.special) /\ ~HasDigit(fn.period)) => WinnerReturned
        /\ HasDigit(fn.special)
               => /\ Val(fn.result) = Some(DigitsOnly(Val(fn.special)))
                  /\ fn.candidates = <<>>
        /\ FallbackOnlyWhenEmpty

\* two candidates of tier 0 where the longer one is not the
\* lexicographically smaller one, after a periodic-account match of
\* hyphens only
C26_Witness ==
    /\ IdReturned
    /\ ~IsNone(fn.special) /\ ~HasDigit(fn.special)
    /\ IsNone(fn.period)
    /\ IdCandidate(0, <<"0", "9", "9", "9">>) \in Collected
    /\ IdCandidate(0, <<"1", "2", "3", "4", "5">>) \in Collected
    /\ fn.result = Some(Some(<<"1", "2", "3", "4", "5">>))

\* no labelled tier yields a candidate
LastResort ==
    /\ IdReturned
    /\ ~HasDigit(fn.special) /\ ~HasDigit(fn.period)
    /\ fn.labelled = <<>>
    /\ MarkerLineYield = <<>>
LongestSmallest(tokens) ==
    \E t \in tokens :
        /\ Val(fn.result) = Some(t)
        /\ \A u \in tokens :
               \/ Len(t) > Len(u)
               \/ Len(t) = Len(u) /\ (t = u \/ StrLess(t, u))
FirstLinesCount ==
    Cardinality({j \in 1..Len(fn.lines) : fn.lead + j <= FirstLines})

\* C27 as stated: the first token of the first 60 lines, else the first
\* token of the text
C27_FirstTokenReturned ==
    LastResort =>
        IF TokensUpTo(FirstLines) # {}
        THEN Val(fn.result) =
                 Some(LineTokensOf(SubSeq(fn.lines, 1, FirstLinesCount))[1])
        ELSE IF TokensUpTo(fn.lead + Len(fn.lines)) # {}
        THEN Val(fn.result) = Some(LineTokensOf(fn.lines)[1])
        ELSE Val(fn.result) = None

\* C27: when no labelled tier yields a candidate, the id returned is the
\* longest token of 8 to 12 digits on the first 60 lines, the
\* lexicographically smallest of the longest ones; when there is none, the
\* longest and then smallest such token anywhere in the text; and null when
\* the text has none
C27_LastResortLongest ==
    LastResort =>
        IF TokensUpTo(FirstLines) # {}
        THEN LongestSmallest(TokensUpTo(FirstLines))
        ELSE IF TokensUpTo(fn.lead + Len(fn.lines)) # {}
        THEN LongestSmallest(TokensUpTo(fn.lead + Len(fn.lines)))
        ELSE Val(fn.result) = None

\* line 59 holds 87654321, line 60 holds 12345678 and then 123456789012,
\* and the token of 12 digits is returned
C27_Witness ==
    /\ LastResort
    /\ fn.lead = FirstLines - 2
    /\ Len(fn.lines) = 2
    /\ fn.lines[1].runs = <<D8b, D13>>
    /\ fn.lines[2].runs = <<D8a, D12>>
    /\ fn.result = Some(Some(D12))

\* ------------------------------- specification: autopay billing period
\* The input is the list of DD/MM/YYYY tokens that line 289 finds in the
\* segment matched before the autopay marker (empty when line 285 does not
\* match); a date is a record of year, month and day.
MaxDates == 3

Date(y, m, d) == [y |-> y, m |-> m, d |-> d]

\* datetime.strptime(normalized, "%Y-%m-%d").date(), line 295
strptime(s) ==
    Date(DigitsToNat(SplitOn(s, "-")[1]), DigitsToNat(SplitOn(s, "-")[2]),
         DigitsToNat(SplitOn(s, "-")[3]))

\* lines 292-295: the tokens that normalize_date_token accepts, parsed
RECURSIVE ParsedDates(_)
ParsedDates(tokens) ==
    IF tokens = <<>> THEN <<>>
    ELSE (IF IsNone(normalize_date_token(Head(tokens)).value) THEN <<>>
          ELSE <<strptime(Val(normalize_date_token(Head(tokens)).value))>>)
             \o ParsedDates(Tail(tokens))

\* date.__lt__
DateLess(a, b) ==
    \/ a.y < b.y
    \/ a.y = b.y /\ a.m < b.m
    \/ a.y = b.y /\ a.m = b.m /\ a.d < b.d

\* parsed_dates[0] and parsed_dates[-1] after the sort of line 297
Earliest(dates) ==
    dates[CHOOSE i \in 1..Len(dates) :
              \A j \in 1..Len(dates) : ~DateLess(dates[j], dates[i])]
Latest(dates) ==
    dates[CHOOSE i \in 1..Len(dates) :
              \A j \in 1..Len(dates) : ~DateLess(dates[i], dates[j])]

\* a_date - timedelta(days=1), line 301
MinusOneDay(a) ==
    IF a.d > 1 THEN Date(a.y, a.m, a.d - 1)
    ELSE IF a.m > 1 THEN Date(a.y, a.m - 1, DaysInMonth(a.y, a.m - 1))
    ELSE Date(a.y - 1, 12, 31)

\* lines 301-303
PeriodEnd_DayBefore(start, end_autopay) == MinusOneDay(end_autopay)
PeriodEnd(start, end_autopay) ==
    IF DateLess(MinusOneDay(end_autopay), start) THEN end_autopay
    ELSE MinusOneDay(end_autopay)

\* lines 300-307; the label is the pair of months whose names
\* MONTH_LABELS_HE gives
PeriodOf(start, end) ==
    [period_start |-> strftime(start.y, start.m, start.d),
     period_end |-> strftime(end.y, end.m, end.d),
     label |-> <<start.m, end.m>>]
PeriodBetween(start_base, end_autopay) ==
    PeriodOf(Date(start_base.y, start_base.m, 1),
             PeriodEnd(Date(start_base.y, start_base.m, 1), end_autopay))

\* lines 284-307 of extract_period_info: None when the function goes on
\* to the patterns of lines 308-344
AutopayPeriod(date_tokens, parsed_dates) ==
    IF Len(date_tokens) >= 2 /\ Len(parsed_dates) >= 2
    THEN Some(PeriodBetween(Earliest(parsed_dates), Latest(parsed_dates)))
    ELSE None
AutopayOutcome(f, parsed_dates) ==
    [f EXCEPT !.parsed_dates = parsed_dates,
              !.result = Some(AutopayPeriod(f.date_tokens, parsed_dates))]

DmyToken(d, m, y) == [form |-> "dmy", day |-> d, month |-> m, year |-> y]
AutopayTokens ==
    { DmyToken(1, 9, 2025), DmyToken(15, 9, 2025), DmyToken(30, 9, 2025),
      DmyToken(31, 10, 2025), DmyToken(1, 1, 2025), DmyToken(1, 3, 2024),
      DmyToken(31, 2, 2025), DmyToken(5, 13, 2025) }

PeriodInit ==
    /\ fn \in [op : {"period"},
               date_tokens : SeqsUpTo(AutopayTokens, MaxDates),
               parsed_dates : {<<>>}, result : {None}]
    /\ num = NumIdle
    /\ sel = SelIdle
    /\ lr = LrIdle
    /\ inv = InvIdle
    /\ batch = BatchIdle

ExtractAutopayPeriod ==
    /\ fn.op = "period"
    /\ IsNone(fn.result)
    /\ fn' = AutopayOutcome(fn, ParsedDates(fn.date_tokens))
    /\ UNCHANGED <<num, sel, lr, inv, batch>>

PeriodNext == ExtractAutopayPeriod

SpecPeriod == PeriodInit /\ [][PeriodNext]_vars

\* the number of days from 1 January of year 1 to a date
IsLeap(y) == (y % 4 = 0 /\ y % 100 # 0) \/ y % 400 = 0
RECURSIVE DaysBeforeMonth(_, _)
DaysBeforeMonth(y, m) ==
    IF m = 1 THEN 0
    ELSE DaysBeforeMonth(y, m - 1)
             + (IF m - 1 = 2 THEN (IF IsLeap(y) THEN 29 ELSE 28)
                ELSE IF m - 1 \in {4, 6, 9, 11} THEN 30 ELSE 31)
DayNumber(a) ==
    365 * (a.y - 1) + ((a.y - 1) \div 4) - ((a.y - 1) \div 100)
        + ((a.y - 1) \div 400) + DaysBeforeMonth(a.y, a.m) + a.d

\* the dates found before the marker, and the period returned for them
AutopayDates == {fn.parsed_dates[i] : i \in 1..Len(fn.parsed_dates)}
AutopayFound ==
    /\ fn.op = "period" /\ ~IsNone(fn.result)
    /\ Len(fn.parsed_dates) >= 2
FirstDate == CHOOSE a \in AutopayDates : \A b \in AutopayDates : ~DateLess(b, a)
LastDate == CHOOSE a \in AutopayDates : \A b \in AutopayDates : ~DateLess(a, b)
StartsAtMonthStart ==
    /\ ~IsNone(Val(fn.result))
    /\ Val(Val(fn.result)).period_start = strftime(FirstDate.y, FirstDate.m, 1)
IsDateText(a, text) ==
    ValidDate(a.y, a.m, a.d) /\ text = strftime(a.y, a.m, a.d)
EndsOnDay(n) ==
    /\ IsDateText(strptime(Val(Val(fn.result)).period_end),
                  Val(Val(fn.result)).period_end)
    /\ DayNumber(strptime(Val(Val(fn.result)).period_end)) = n
AllOnMonthStart == FirstDate = LastDate /\ LastDate.d = 1

\* C28 as stated: period_end is the day before the latest date for every
\* set of dates
C28_EndAlwaysDayBefore ==
    AutopayFound => StartsAtMonthStart /\ EndsOnDay(DayNumber(LastDate) - 1)

\* C28: with two or more dates before the autopay marker, period_start is
\* the first day of the month of the earliest date; period_end is the day
\* before the latest date, except that it is the latest date itself when
\* all the dates are the same first day of a month
C28_AutopayPeriod ==
    AutopayFound =>
        /\ StartsAtMonthStart
        /\ ~AllOnMonthStart => EndsOnDay(DayNumber(LastDate) - 1)
        /\ AllOnMonthStart => EndsOnDay(DayNumber(LastDate))

\* both dates are 01/09/2025 and the period ends on 2025-09-01
C28_Witness ==
    /\ AutopayFound
    /\ fn.date_tokens = <<DmyToken(1, 9, 2025), DmyToken(1, 9, 2025)>>
    /\ Val(Val(fn.result)).period_start = strftime(2025, 9, 1)
    /\ Val(Val(fn.result)).period_end = strftime(2025, 9, 1)

\* ------------------------------------------------ breakdown consistency
\* the lines sum_numeric_block was given in parse_invoice, the first line
\* with a start marker, and the first line with an end marker after it
BlockInput == BlockSource(inv.text.lines, inv.text_pdfminer.lines)
StartLines == {i \in 1..Len(BlockInput) : AnyMarkerIn(BlockStartMarkers, BlockInput[i])}
FirstStart == CHOOSE i \in StartLines : \A j \in StartLines : i <= j
EndLines ==
    {i \in 1..Len(BlockInput) :
         i > FirstStart /\ AnyMarkerIn(BlockEndMarkers, BlockInput[i])}
FirstEnd ==
    IF EndLines = {} THEN Len(BlockInput) + 1
    ELSE CHOOSE i \in EndLines : \A j \in EndLines : i <= j
Contributing ==
    IF StartLines = {} THEN {}
    ELSE {i \in (FirstStart + 1)..(FirstEnd - 1) :
              /\ IsSignedNumericLine(Strip(BlockInput[i]))
              /\ ~IsNone(parse_amount(Strip(BlockInput[i])))}
RECURSIVE AmountsAt(_)
AmountsAt(S) ==
    IF S = {} THEN <<>>
    ELSE <<Val(parse_amount(Strip(BlockInput[CHOOSE i \in S : \A j \in S : i <= j])))>>
             \o AmountsAt(S \ {CHOOSE i \in S : \A j \in S : i <= j})
RECURSIVE SumInOrder(_, _)
SumInOrder(values, k) ==
    IF k = 0 THEN 0 ELSE SumInOrder(values, k - 1) + values[k]
SumMatchesValues(sum, values) ==
    /\ IsNone(sum) <=> values = <<>>
    /\ ~IsNone(sum) => Val(sum) = SumInOrder(values, Len(values))

\* C29: the sum that sum_numeric_block returns is the sum of the values it
\* returns and is null exactly when there are none; the values are those
\* of the well-formed signed numeric lines strictly between the first
\* start-marker line and the first end-marker line after it; and in the
\* record breakdown_sum is null iff breakdown_values is null and otherwise
\* equals the sum of breakdown_values
C29_BreakdownConsistent ==
    /\ TotalsInferred =>
           /\ SumMatchesValues(Val(inv.totals).breakdown_sum,
                               Val(inv.totals).breakdown_values)
           /\ Val(inv.totals).breakdown_values = AmountsAt(Contributing)
    /\ inv.pc # "idle" =>
           /\ IsNone(inv.record.breakdown_sum)
                  <=> IsNone(inv.record.breakdown_values)
           /\ ~IsNone(inv.record.breakdown_sum)
                  => SumMatchesValues(inv.record.breakdown_sum,
                                      Val(inv.record.breakdown_values))

\* a block that opens after an end marker and an amount, closes, and is
\* followed by a second start marker and an amount: only 200 is summed
C29_Witness ==
    /\ TotalsInferred
    /\ Len(BlockInput) = 7
    /\ AnyMarkerIn(BlockEndMarkers, BlockInput[1])
    /\ FirstStart = 3 /\ FirstEnd = 5
    /\ StartLines = {3, 6}
    /\ inv.record.breakdown_values = Some(<<20000>>)
    /\ inv.record.breakdown_sum = Some(20000)

\* C30: a record with municipal true and a breakdown sum has a total within
\* 1.00 of the breakdown sum and does not carry the note "Total differs
\* from breakdown sum"
C30_MunicipalNeverMismatched ==
    ( /\ inv.pc \in {"totals", "done"}
      /\ inv.record.municipal = Some(TRUE)
      /\ ~IsNone(inv.record.breakdown_sum) )
        => /\ ~IsNone(inv.record.invoice_total)
           /\ Abs(Val(inv.record.invoice_total)
                      - Val(inv.record.breakdown_sum)) <= 100
           /\ inv.record.notes # Some("Total differs from breakdown sum")

\* a municipal record whose labelled total of 100.00 is kept beside a
\* breakdown sum of 99.00
C30_Witness ==
    /\ inv.pc = "done"
    /\ inv.record.municipal = Some(TRUE)
    /\ inv.record.breakdown_sum = Some(9900)
    /\ inv.record.invoice_total = Some(10000)
    /\ IsNone(inv.record.notes)

====
